---- MODULE Spec2Model ----
(***************************************************************************)
(* A model of the oauthlib authorization server library: the in-memory     *)
(* store, the response model, the URI validator, client authentication,    *)
(* and the two-phase Handle/Finish operations of the authorization, token  *)
(* and info endpoints.                                                      *)
(*                                                                         *)
(* Conventions.                                                            *)
(*  - A Go pointer to a struct is a sequence of length at most one:        *)
(*    <<>> is nil and <<x>> points to x.                                   *)
(*  - Identifiers, secrets, codes and tokens are TLA+ strings ("" is the   *)
(*    empty string).  Strings the code takes apart (redirect URIs, URI     *)
(*    lists, scopes) are sequences of symbols, <<>> being the empty        *)
(*    string, so that strings.Split, HasPrefix, TrimRight ... are computed *)
(*    as the code computes them.                                           *)
(*  - Time is an integer number of seconds since the server was built.     *)
(***************************************************************************)
EXTENDS Integers, Sequences, FiniteSets, TLC

(***************************************************************************)
(* Bounds of the model.                                                    *)
(***************************************************************************)
\* the clock runs from 0 to MaxTime
MaxTime == 2
\* the authorization code generator is called at most MaxCodes times
MaxCodes == 1
\* the access token generator is called at most MaxTokens times
MaxTokens == 1
\* lifetime of an authorization code in the modelled configuration (seconds)
AuthorizationExpiration == 2
\* lifetime of an access token in the modelled configuration (seconds)
AccessExpiration == 1
\* longest string drawn as an input of the pure string functions
MaxLen == 3

\* the longest chain of refreshes
MaxChain == 2

(***************************************************************************)
(* Strings as sequences of symbols.                                        *)
(***************************************************************************)
Nil == <<>>

Some(x) == <<x>>

\* the symbols of s, as a set
Symbols(s) == {s[i] : i \in 1..Len(s)}

\* strings.Index with a one-symbol separator: 0 when c does not occur in s
IndexOf(s, c) ==
  IF c \in Symbols(s)
    THEN CHOOSE i \in 1..Len(s) : s[i] = c /\ \A j \in 1..(i - 1) : s[j] # c
    ELSE 0

RECURSIVE Split(_, _)
\* strings.Split(s, sep) for a one-symbol separator: the sequence of the
\* substrings between the separators; Split("", sep) is <<"">>
Split(s, c) ==
  LET i == IndexOf(s, c)
  IN  IF i = 0
        THEN <<s>>
        ELSE <<SubSeq(s, 1, i - 1)>> \o Split(SubSeq(s, i + 1, Len(s)), c)

\* strings.HasPrefix
HasPrefix(s, p) == Len(p) <= Len(s) /\ SubSeq(s, 1, Len(p)) = p

\* strings.TrimPrefix
TrimPrefix(s, p) == IF HasPrefix(s, p) THEN SubSeq(s, Len(p) + 1, Len(s)) ELSE s

RECURSIVE TrimRight(_, _)
\* strings.TrimRight(s, cutset) for a one-symbol cutset
TrimRight(s, c) ==
  IF Len(s) > 0 /\ s[Len(s)] = c THEN TrimRight(SubSeq(s, 1, Len(s) - 1), c) ELSE s

\* all strings over alphabet A of length at most n
StringsUpTo(A, n) == UNION {[1..k -> A] : k \in 0..n}

(***************************************************************************)
(* net/url.Parse on the symbols of the model.  A URI string is an optional *)
(* scheme symbol, an optional host symbol, path symbols, and after the     *)
(* first "#" its fragment; the symbol "%" stands for an invalid escape,    *)
(* which makes url.Parse fail.                                             *)
(***************************************************************************)
Schemes == {"http:", "https:"}

Hosts == {"//h", "//g"}

ParseURL(u) ==
  IF "%" \in Symbols(u)
    THEN [err |-> TRUE, Scheme |-> "", Host |-> "", Path |-> <<>>, Fragment |-> <<>>]
    ELSE
      LET hasScheme == Len(u) > 0 /\ u[1] \in Schemes
          r1 == IF hasScheme THEN Tail(u) ELSE u
          hasHost == Len(r1) > 0 /\ r1[1] \in Hosts
          r2 == IF hasHost THEN Tail(r1) ELSE r1
          h == IndexOf(r2, "#")
      IN  [err |-> FALSE,
           Scheme |-> IF hasScheme THEN u[1] ELSE "",
           Host |-> IF hasHost THEN r1[1] ELSE "",
           Path |-> IF h = 0 THEN r2 ELSE SubSeq(r2, 1, h - 1),
           Fragment |-> IF h = 0 THEN <<>> ELSE SubSeq(r2, h + 1, Len(r2))]

(***************************************************************************)
(* The URI validator.  The result is "ok" (nil), "invalid" (a              *)
(* URIValidationError) or "error" (any other error).                       *)
(***************************************************************************)
\* validateURI without the exact path match: the fault the property C26 has
\* to detect
validateURISubpathOnly(baseURI, redirectURI) ==
  IF baseURI = <<>> \/ redirectURI = <<>> THEN "error"
  ELSE
    LET base == ParseURL(baseURI)
        redirect == ParseURL(redirectURI)
        requiredPrefix == TrimRight(base.Path, "/") \o <<"/">>
    IN  IF base.err \/ redirect.err THEN "error"
        ELSE IF base.Fragment # <<>> \/ redirect.Fragment # <<>> THEN "error"
        ELSE IF base.Scheme # redirect.Scheme THEN "invalid"
        ELSE IF base.Host # redirect.Host THEN "invalid"
        ELSE IF ~HasPrefix(redirect.Path, requiredPrefix) THEN "invalid"
        ELSE IF \E s \in Symbols(Split(TrimPrefix(redirect.Path, requiredPrefix), "/")) :
                   s = <<".", ".">>
          THEN "invalid"
        ELSE "ok"

\* validateURI taking the base path itself as the required prefix: the fault
\* the property C27 has to detect
validateURIPlainPrefix(baseURI, redirectURI) ==
  IF baseURI = <<>> \/ redirectURI = <<>> THEN "error"
  ELSE
    LET base == ParseURL(baseURI)
        redirect == ParseURL(redirectURI)
        requiredPrefix == base.Path
    IN  IF base.err \/ redirect.err THEN "error"
        ELSE IF base.Fragment # <<>> \/ redirect.Fragment # <<>> THEN "error"
        ELSE IF base.Scheme # redirect.Scheme THEN "invalid"
        ELSE IF base.Host # redirect.Host THEN "invalid"
        ELSE IF base.Path = redirect.Path THEN "ok"
        ELSE IF ~HasPrefix(redirect.Path, requiredPrefix) THEN "invalid"
        ELSE IF \E s \in Symbols(Split(TrimPrefix(redirect.Path, requiredPrefix), "/")) :
                   s = <<".", ".">>
          THEN "invalid"
        ELSE "ok"

validateURI(baseURI, redirectURI) ==
  IF baseURI = <<>> \/ redirectURI = <<>> THEN "error"
  ELSE
    LET base == ParseURL(baseURI)
        redirect == ParseURL(redirectURI)
        requiredPrefix == TrimRight(base.Path, "/") \o <<"/">>
    IN  IF base.err \/ redirect.err THEN "error"
        ELSE IF base.Fragment # <<>> \/ redirect.Fragment # <<>> THEN "error"
        ELSE IF base.Scheme # redirect.Scheme THEN "invalid"
        ELSE IF base.Host # redirect.Host THEN "invalid"
        ELSE IF base.Path = redirect.Path THEN "ok"
        ELSE IF ~HasPrefix(redirect.Path, requiredPrefix) THEN "invalid"
        ELSE IF \E s \in Symbols(Split(TrimPrefix(redirect.Path, requiredPrefix), "/")) :
                   s = <<".", ".">>
          THEN "invalid"
        ELSE "ok"

\* the loop of validateURIList stopping after the first base URI: the fault
\* the property C28 has to detect
validateListHead(slist, redirectURI) ==
  IF slist = <<>> THEN "invalid" ELSE validateURI(Head(slist), redirectURI)

RECURSIVE validateList(_, _)
\* the loop of validateURIList over the list of base URIs
validateList(slist, redirectURI) ==
  IF slist = <<>> THEN "invalid"
  ELSE LET err == validateURI(Head(slist), redirectURI)
       IN  IF err = "ok" THEN "ok"
           ELSE IF err # "invalid" THEN err
           ELSE validateList(Tail(slist), redirectURI)

\* separator is "" (the empty string, <<>>) or a one-symbol string <<c>>
validateURIList(baseURI, redirectURI, separator) ==
  LET slist == IF separator # <<>> THEN Split(baseURI, separator[1]) ELSE <<baseURI>>
  IN  validateList(slist, redirectURI)

firstURI(baseURI, sep) ==
  IF sep = <<>> THEN baseURI ELSE Split(baseURI, sep[1])[1]

(***************************************************************************)
(* Scopes.                                                                 *)
(***************************************************************************)
\* the map built by the first loop of extraScopes: the non-empty elements
ScopeElements(scope) == {e \in Symbols(Split(scope, ",")) : e # <<>>}

\* extraScopes with the two lists taken for one another: the fault the
\* narrowing property C11 has to detect
extraScopesSwapped(accessScopes, refreshScopes) ==
  LET refreshMap == ScopeElements(refreshScopes)
      accessScopesList == Split(accessScopes, ",")
  IN  \E i \in 1..Len(accessScopesList) :
        accessScopesList[i] # <<>> /\ accessScopesList[i] \notin refreshMap

\* extraScopes without the "continue" on an empty element of the requested
\* list: the fault the scope property C10 has to detect
extraScopesCountingEmpty(accessScopes, refreshScopes) ==
  LET accessMap == ScopeElements(accessScopes)
      refreshScopesList == Split(refreshScopes, ",")
  IN  \E i \in 1..Len(refreshScopesList) : refreshScopesList[i] \notin accessMap

extraScopes(accessScopes, refreshScopes) ==
  LET accessMap == ScopeElements(accessScopes)
      refreshScopesList == Split(refreshScopes, ",")
  IN  \E i \in 1..Len(refreshScopesList) :
        refreshScopesList[i] # <<>> /\ refreshScopesList[i] \notin accessMap

(***************************************************************************)
(* The error taxonomy.                                                     *)
(***************************************************************************)
ResponseError(type, desc) == [Type |-> type, Desc |-> desc]

ErrInvalidRequest ==
  ResponseError("invalid_request", "The request is missing a required parameter, includes an invalid parameter value, includes a parameter more than once, or is otherwise malformed.")

ErrUnauthorizedClient ==
  ResponseError("unauthorized_client", "The client is not authorized to request a token using this method.")

ErrAccessDenied ==
  ResponseError("access_denied", "The resource owner or authorization server denied the request.")

ErrUnsupportedResponseType ==
  ResponseError("unsupported_response_type", "The authorization server does not support obtaining a token using this method.")

ErrServerError ==
  ResponseError("server_error", "The authorization server encountered an unexpected condition that prevented it from fulfilling the request.")

ErrUnsupportedGrantType ==
  ResponseError("unsupported_grant_type", "The authorization grant type is not supported by the authorization server.")

ErrInvalidGrant ==
  ResponseError("invalid_grant", "The provided authorization grant (e.g., authorization code, resource owner credentials) or refresh token is invalid, expired, revoked, does not match the redirection URI used in the authorization request, or was issued to another client.")

ErrInvalidClient ==
  ResponseError("invalid_client", "Client authentication failed (e.g., unknown client, no client authentication included, or unsupported authentication method).")

(***************************************************************************)
(* The server configuration of the model.                                  *)
(***************************************************************************)
\* http.StatusOK
StatusOK == 200

HttpStatusCode == 200

TokenType == "Bearer"

AllowedAuthorizeRequestTypes == {"code", "token", "id_token"}

AuthorizationCodeGrant == "authorization_code"

RefreshTokenGrant == "refresh_token"

PasswordGrant == "password"

ClientCredentialsGrant == "client_credentials"

AssertionGrant == "assertion"

ImplicitGrant == "__implicit"

AllowedGrantTypes ==
  {AuthorizationCodeGrant, RefreshTokenGrant, PasswordGrant, ClientCredentialsGrant,
   AssertionGrant, ImplicitGrant}

AllowClientSecretInParams == TRUE

AllowGetAccessRequest == FALSE

RedirectURISeparator == <<"|">>

isAuthorizeRequestTypeAllowed(at) == at \in AllowedAuthorizeRequestTypes

isGrantTypeAllowed(gt) == gt \in AllowedGrantTypes

(***************************************************************************)
(* The response model.                                                     *)
(***************************************************************************)
\* a map with no key
EmptyMap == [k \in {} |-> ""]

\* m[k] = v, as a Go map assignment
Put(m, k, v) == [x \in (DOMAIN m) \cup {k} |-> IF x = k THEN v ELSE m[x]]

\* Server.NewResponse: the headers are constant and left out
NewResponse ==
  [ResponseType |-> "DATA", StatusCode |-> StatusOK, StatusText |-> "",
   HttpStatusCode |-> HttpStatusCode, URL |-> <<>>, Output |-> EmptyMap,
   IsError |-> FALSE, ErrorType |-> "", InternalError |-> "",
   RedirectInFragment |-> FALSE]

\* SetError writing into the output it finds: the fault the property C29 has
\* to detect
SetErrorKeepingOutput(r, e, state) ==
  LET out == Put(Put(r.Output, "error", e.Type), "error_description", e.Desc)
  IN  [r EXCEPT !.IsError = TRUE,
                !.ErrorType = e.Type,
                !.StatusCode = r.HttpStatusCode,
                !.StatusText = IF r.HttpStatusCode # StatusOK THEN e.Desc ELSE "",
                !.Output = IF Len(state) > 0 /\ state[1] # ""
                             THEN Put(out, "state", state[1]) ELSE out]

\* Response.SetError(e, state...): state is <<>> when no state is passed
SetError(r, e, state) ==
  LET out == Put(Put(EmptyMap, "error", e.Type), "error_description", e.Desc)
  IN  [r EXCEPT !.IsError = TRUE,
                !.ErrorType = e.Type,
                !.StatusCode = r.HttpStatusCode,
                !.StatusText = IF r.HttpStatusCode # StatusOK THEN e.Desc ELSE "",
                !.Output = IF Len(state) > 0 /\ state[1] # ""
                             THEN Put(out, "state", state[1]) ELSE out]

\* SetError followed by the assignment of w.InternalError
\* an error set without the underlying error: the fault the property C20 has
\* to detect
SetErrorUnreported(r, e, state, err) == SetError(r, e, state)

SetErrorInternal(r, e, state, err) == [SetError(r, e, state) EXCEPT !.InternalError = err]

\* SetRedirect that stores the URL and leaves the response in its mode: the
\* fault the property C14 has to detect
SetURL(r, url) == [r EXCEPT !.URL = url]

SetRedirect(r, url) == [r EXCEPT !.ResponseType = "REDIRECT", !.URL = url]

\* SetRedirectFragment that leaves the output in the query: the fault the
\* property C17 has to detect
KeepRedirectQuery(r, f) == r

SetRedirectFragment(r, f) == [r EXCEPT !.RedirectInFragment = f]

(***************************************************************************)
(* Clients.  matcher tells whether the client's type implements the        *)
(* ClientSecretMatcher interface.                                          *)
(***************************************************************************)
U_A == <<"http:", "//h", "/", "a">>

U_AB == <<"http:", "//h", "/", "a", "/", "b">>

U_B == <<"http:", "//h", "/", "b">>

Client1 == [ID |-> "1234", Secret |-> "aabbccdd", RedirectURI |-> U_A, matcher |-> TRUE]

Client2 ==
  [ID |-> "5678", Secret |-> "eeffgghh", RedirectURI |-> U_A \o <<"|">> \o U_B,
   matcher |-> FALSE]

Client3 == [ID |-> "0000", Secret |-> "iijjkkll", RedirectURI |-> <<>>, matcher |-> TRUE]

\* DefaultClient.ClientSecretMatches
ClientSecretMatches(client, secret) == client.Secret = secret

(***************************************************************************)
(* The in-memory store: four maps.  A load result is [val, err]: val is a  *)
(* pointer and err is "" for nil.                                          *)
(***************************************************************************)
NewMemStorage ==
  [Clients |-> EmptyMap, AuthorizeData |-> EmptyMap, AccessGrants |-> EmptyMap,
   RefreshGrants |-> EmptyMap]

\* delete(m, k)
Delete(m, k) == [x \in (DOMAIN m) \ {k} |-> m[x]]

GetClient(st, id) ==
  IF id \in DOMAIN st.Clients
    THEN [val |-> Some(st.Clients[id]), err |-> ""]
    ELSE [val |-> Nil, err |-> "Client not found"]

SetClient(st, id, client) == [st EXCEPT !.Clients = Put(st.Clients, id, client)]

\* SaveAuthorizeData that loses the state parameter: the fault the property
\* C16 has to detect
SaveAuthorizeDataStateless(st, ad) ==
  [st EXCEPT !.AuthorizeData = Put(st.AuthorizeData, ad.Code, [ad EXCEPT !.State = ""])]

SaveAuthorizeData(st, ad) ==
  [st EXCEPT !.AuthorizeData = Put(st.AuthorizeData, ad.Code, ad)]

LoadAuthorizeData(st, code) ==
  IF code \in DOMAIN st.AuthorizeData
    THEN [val |-> Some(st.AuthorizeData[code]), err |-> ""]
    ELSE [val |-> Nil, err |-> "Authorize not found"]

RemoveAuthorizeData(st, code) ==
  [st EXCEPT !.AuthorizeData = Delete(st.AuthorizeData, code)]

SaveAccessGrant(st, ag) ==
  [st EXCEPT !.AccessGrants = Put(st.AccessGrants, ag.AccessToken, ag),
             !.RefreshGrants = IF ag.RefreshToken # ""
                                 THEN Put(st.RefreshGrants, ag.RefreshToken, ag.AccessToken)
                                 ELSE st.RefreshGrants]

LoadAccessGrant(st, code) ==
  IF code \in DOMAIN st.AccessGrants
    THEN [val |-> Some(st.AccessGrants[code]), err |-> ""]
    ELSE [val |-> Nil, err |-> "Access not found"]

RemoveAccessGrant(st, code) ==
  [st EXCEPT !.AccessGrants = Delete(st.AccessGrants, code)]

\* LoadRefreshGrant answering nil without an error for an unknown refresh
\* token: the fault the property C13 has to detect
LoadRefreshGrantOrNil(st, code) ==
  IF code \in DOMAIN st.RefreshGrants
    THEN LoadAccessGrant(st, st.RefreshGrants[code])
    ELSE [val |-> Nil, err |-> ""]

LoadRefreshGrant(st, code) ==
  IF code \in DOMAIN st.RefreshGrants
    THEN LoadAccessGrant(st, st.RefreshGrants[code])
    ELSE [val |-> Nil, err |-> "Refresh not found"]

RemoveRefreshGrant(st, code) ==
  [st EXCEPT !.RefreshGrants = Delete(st.RefreshGrants, code)]

(***************************************************************************)
(* Expiry.                                                                 *)
(***************************************************************************)
\* AuthorizeData.ExpireAt and AccessGrant.ExpireAt
ExpireAt(d) == d.CreatedAt + d.ExpiresIn

\* IsExpiredAt with "not after" in the place of "before": the fault the
\* expiry property C9 has to detect
IsExpiredFrom(d, t) == ExpireAt(d) <= t

\* AuthorizeData.IsExpiredAt and AccessGrant.IsExpiredAt: ExpireAt().Before(t)
IsExpiredAt(d, t) == ExpireAt(d) < t

(***************************************************************************)
(* Requests.  The Authorization header is the sequence strings.SplitN      *)
(* (header, " ", 2) makes of it (<<>> when the header is absent); a form   *)
(* field whose presence matters (client_secret) is a pointer.              *)
(***************************************************************************)
\* encoding/base64 DecodeString, then strings.SplitN(decoded, ":", 2), on
\* the payloads of the model
DecodeBasic(payload) ==
  CASE payload = "MTIzNDphYWJiY2NkZA==" -> [err |-> "", pair |-> <<"1234", "aabbccdd">>]
    [] payload = "MTIzNDp3cm9uZw==" -> [err |-> "", pair |-> <<"1234", "wrong">>]
    [] payload = "NTY3ODplZWZmZ2doaA==" -> [err |-> "", pair |-> <<"5678", "eeffgghh">>]
    [] payload = "MDAwMDppaWpqa2tsbA==" -> [err |-> "", pair |-> <<"0000", "iijjkkll">>]
    [] payload = "NDMyMTphYWJiY2NkZA==" -> [err |-> "", pair |-> <<"4321", "aabbccdd">>]
    [] payload = "bm9jb2xvbg==" -> [err |-> "", pair |-> <<"nocolon">>]
    [] OTHER -> [err |-> "illegal base64 data", pair |-> <<>>]

BasicAuth(username, password) == [Username |-> username, Password |-> password]

\* the result is [auth, err]: auth a pointer, err "" for nil
checkBasicAuth(r) ==
  IF r.Authorization = <<>> THEN [auth |-> Nil, err |-> ""]
  ELSE
    LET s == r.Authorization
    IN  IF Len(s) # 2 \/ s[1] # "Basic"
          THEN [auth |-> Nil, err |-> "Invalid authorization header"]
          ELSE
            LET b == DecodeBasic(s[2])
            IN  IF b.err # "" THEN [auth |-> Nil, err |-> b.err]
                ELSE IF Len(b.pair) # 2
                  THEN [auth |-> Nil, err |-> "Invalid authorization message"]
                ELSE [auth |-> Some(BasicAuth(b.pair[1], b.pair[2])), err |-> ""]

\* the result is [auth, w]
getClientAuth(w, r, allowQueryParams) ==
  IF allowQueryParams /\ r.client_secret # Nil /\ r.client_id # ""
    THEN [auth |-> Some(BasicAuth(r.client_id, r.client_secret[1])), w |-> w]
    ELSE
      LET c == checkBasicAuth(r)
      IN  IF c.err # ""
            THEN [auth |-> Nil, w |-> SetErrorInternal(w, ErrInvalidRequest, <<>>, c.err)]
          ELSE IF c.auth = Nil
            THEN [auth |-> Nil,
                  w |-> SetErrorInternal(w, ErrInvalidRequest, <<>>,
                                         "Client authentication not sent")]
          ELSE [auth |-> c.auth, w |-> w]

\* getClient comparing with GetSecret whatever the client implements: the
\* fault the matcher property C6 has to detect
getClientBySecret(auth, storage, w) ==
  LET g == GetClient(storage, auth.Username)
  IN  IF g.err # ""
        THEN [client |-> Nil, w |-> SetErrorInternal(w, ErrServerError, <<>>, g.err),
              getSecret |-> FALSE]
      ELSE IF g.val = Nil
        THEN [client |-> Nil, w |-> SetError(w, ErrUnauthorizedClient, <<>>),
              getSecret |-> FALSE]
      ELSE
        LET client == g.val[1]
        IN  IF client.Secret # auth.Password
              THEN [client |-> Nil, w |-> SetError(w, ErrUnauthorizedClient, <<>>),
                    getSecret |-> TRUE]
            ELSE IF client.RedirectURI = <<>>
              THEN [client |-> Nil, w |-> SetError(w, ErrUnauthorizedClient, <<>>),
                    getSecret |-> TRUE]
            ELSE [client |-> g.val, w |-> w, getSecret |-> TRUE]

\* getClient without its last check, that of the registered redirect URI:
\* the fault the authentication property C5 has to detect
getClientAnyRedirect(auth, storage, w) ==
  LET g == GetClient(storage, auth.Username)
  IN  IF g.err # ""
        THEN [client |-> Nil, w |-> SetErrorInternal(w, ErrServerError, <<>>, g.err),
              getSecret |-> FALSE]
      ELSE IF g.val = Nil
        THEN [client |-> Nil, w |-> SetError(w, ErrUnauthorizedClient, <<>>),
              getSecret |-> FALSE]
      ELSE
        LET client == g.val[1]
            mismatch == IF client.matcher
                          THEN ~ClientSecretMatches(client, auth.Password)
                          ELSE client.Secret # auth.Password
        IN  IF mismatch
              THEN [client |-> Nil, w |-> SetError(w, ErrUnauthorizedClient, <<>>),
                    getSecret |-> ~client.matcher]
            ELSE [client |-> g.val, w |-> w, getSecret |-> ~client.matcher]

\* the result is [client, w, getSecret]: getSecret tells whether the
\* client's GetSecret was called
getClient(auth, storage, w) ==
  LET g == GetClient(storage, auth.Username)
  IN  IF g.err # ""
        THEN [client |-> Nil, w |-> SetErrorInternal(w, ErrServerError, <<>>, g.err),
              getSecret |-> FALSE]
      ELSE IF g.val = Nil
        THEN [client |-> Nil, w |-> SetError(w, ErrUnauthorizedClient, <<>>),
              getSecret |-> FALSE]
      ELSE
        LET client == g.val[1]
            mismatch == IF client.matcher
                          THEN ~ClientSecretMatches(client, auth.Password)
                          ELSE client.Secret # auth.Password
        IN  IF mismatch
              THEN [client |-> Nil, w |-> SetError(w, ErrUnauthorizedClient, <<>>),
                    getSecret |-> ~client.matcher]
            ELSE IF client.RedirectURI = <<>>
              THEN [client |-> Nil, w |-> SetError(w, ErrUnauthorizedClient, <<>>),
                    getSecret |-> ~client.matcher]
            ELSE [client |-> g.val, w |-> w, getSecret |-> ~client.matcher]

(***************************************************************************)
(* The token endpoint: Handle.  Every handler returns [w, ret]: the        *)
(* response as the handler leaves it and the request it returns (a         *)
(* pointer, Nil for nil).                                                  *)
(***************************************************************************)
AccessRequest ==
  [GrantType |-> "", Code |-> "", Client |-> Nil, AuthorizeData |-> Nil,
   AccessGrant |-> Nil, ForceAccessGrant |-> Nil, RedirectURI |-> <<>>,
   Scope |-> <<>>, Username |-> "", Password |-> "", AssertionType |-> "",
   Assertion |-> "", Authorized |-> FALSE, Expiration |-> 0,
   GenerateRefresh |-> FALSE, UserData |-> ""]

\* a handler's results: [w, ret, getSecret]; getSecret tells whether the
\* handler called the client's GetSecret
Fail(w) == [w |-> w, ret |-> Nil, getSecret |-> FALSE]

Ok(w, ret) == [w |-> w, ret |-> Some(ret), getSecret |-> FALSE]

\* the result res of the steps that follow the call c of getClient
After(c, res) == [res EXCEPT !.getSecret = c.getSecret]

\* checkAuthorizationCode without the comparison of the client of the code
\* with the authenticated client: the fault the property C7 has to detect
checkCodeOfAnyClient(w, ret, storage, now) ==
  LET l == LoadAuthorizeData(storage, ret.Code)
  IN  IF l.err # "" THEN Fail(SetErrorInternal(w, ErrInvalidGrant, <<>>, l.err))
      ELSE IF l.val = Nil THEN Fail(SetError(w, ErrUnauthorizedClient, <<>>))
      ELSE
        LET ad == l.val[1]
            client == ret.Client[1]
            uri == IF ret.RedirectURI = <<>>
                     THEN firstURI(client.RedirectURI, RedirectURISeparator)
                     ELSE ret.RedirectURI
            v == validateURIList(client.RedirectURI, uri, RedirectURISeparator)
        IN  IF ad.Client = Nil THEN Fail(SetError(w, ErrUnauthorizedClient, <<>>))
            ELSE IF ad.Client[1].RedirectURI = <<>>
              THEN Fail(SetError(w, ErrUnauthorizedClient, <<>>))
            ELSE IF IsExpiredAt(ad, now) THEN Fail(SetError(w, ErrInvalidGrant, <<>>))
            ELSE IF v # "ok"
              THEN Fail(SetErrorInternal(w, ErrInvalidRequest, <<>>, "urls don't validate"))
            ELSE IF ad.RedirectURI # uri
              THEN Fail(SetErrorInternal(w, ErrInvalidRequest, <<>>,
                                         "Redirect uri is different"))
            ELSE Ok(w, [ret EXCEPT !.AuthorizeData = l.val,
                                   !.RedirectURI = uri,
                                   !.Scope = ad.Scope,
                                   !.UserData = ad.UserData])

\* checkAuthorizationCode without the comparison of the redirect URI stored
\* with the code: the fault the property C8 has to detect
checkCodeAnyRedirect(w, ret, storage, now) ==
  LET l == LoadAuthorizeData(storage, ret.Code)
  IN  IF l.err # "" THEN Fail(SetErrorInternal(w, ErrInvalidGrant, <<>>, l.err))
      ELSE IF l.val = Nil THEN Fail(SetError(w, ErrUnauthorizedClient, <<>>))
      ELSE
        LET ad == l.val[1]
            client == ret.Client[1]
            uri == IF ret.RedirectURI = <<>>
                     THEN firstURI(client.RedirectURI, RedirectURISeparator)
                     ELSE ret.RedirectURI
            v == validateURIList(client.RedirectURI, uri, RedirectURISeparator)
        IN  IF ad.Client = Nil THEN Fail(SetError(w, ErrUnauthorizedClient, <<>>))
            ELSE IF ad.Client[1].RedirectURI = <<>>
              THEN Fail(SetError(w, ErrUnauthorizedClient, <<>>))
            ELSE IF IsExpiredAt(ad, now) THEN Fail(SetError(w, ErrInvalidGrant, <<>>))
            ELSE IF ad.Client[1].ID # client.ID
              THEN Fail(SetError(w, ErrInvalidGrant, <<>>))
            ELSE IF v # "ok"
              THEN Fail(SetErrorInternal(w, ErrInvalidRequest, <<>>, "urls don't validate"))
            ELSE Ok(w, [ret EXCEPT !.AuthorizeData = l.val,
                                   !.RedirectURI = uri,
                                   !.Scope = ad.Scope,
                                   !.UserData = ad.UserData])

\* the checks of handleAuthorizationCodeRequest once the client is known
checkAuthorizationCode(w, ret, storage, now) ==
  LET l == LoadAuthorizeData(storage, ret.Code)
  IN  IF l.err # "" THEN Fail(SetErrorInternal(w, ErrInvalidGrant, <<>>, l.err))
      ELSE IF l.val = Nil THEN Fail(SetError(w, ErrUnauthorizedClient, <<>>))
      ELSE
        LET ad == l.val[1]
            client == ret.Client[1]
            uri == IF ret.RedirectURI = <<>>
                     THEN firstURI(client.RedirectURI, RedirectURISeparator)
                     ELSE ret.RedirectURI
            v == validateURIList(client.RedirectURI, uri, RedirectURISeparator)
        IN  IF ad.Client = Nil THEN Fail(SetError(w, ErrUnauthorizedClient, <<>>))
            ELSE IF ad.Client[1].RedirectURI = <<>>
              THEN Fail(SetError(w, ErrUnauthorizedClient, <<>>))
            ELSE IF IsExpiredAt(ad, now) THEN Fail(SetError(w, ErrInvalidGrant, <<>>))
            ELSE IF ad.Client[1].ID # client.ID
              THEN Fail(SetError(w, ErrInvalidGrant, <<>>))
            ELSE IF v # "ok"
              THEN Fail(SetErrorInternal(w, ErrInvalidRequest, <<>>, "urls don't validate"))
            ELSE IF ad.RedirectURI # uri
              THEN Fail(SetErrorInternal(w, ErrInvalidRequest, <<>>,
                                         "Redirect uri is different"))
            ELSE Ok(w, [ret EXCEPT !.AuthorizeData = l.val,
                                   !.RedirectURI = uri,
                                   !.Scope = ad.Scope,
                                   !.UserData = ad.UserData])

handleAuthorizationCodeRequest(w, r, storage, now) ==
  LET a == getClientAuth(w, r, AllowClientSecretInParams)
      ret == [AccessRequest EXCEPT !.GrantType = AuthorizationCodeGrant,
                                   !.Code = r.code,
                                   !.RedirectURI = r.redirect_uri,
                                   !.GenerateRefresh = TRUE,
                                   !.Expiration = AccessExpiration]
  IN  IF a.auth = Nil THEN Fail(a.w)
      ELSE IF ret.Code = "" THEN Fail(SetError(w, ErrInvalidGrant, <<>>))
      ELSE
        LET c == getClient(a.auth[1], storage, w)
        IN  IF c.client = Nil THEN After(c, Fail(c.w))
            ELSE After(c, checkAuthorizationCode(w, [ret EXCEPT !.Client = c.client],
                                                 storage, now))

\* the checks of handleRefreshTokenRequest once the client is known
\* checkRefreshToken without the comparison of the client ids: the fault the
\* property C12 has to detect
checkRefreshTokenOfAnyClient(w, ret, storage) ==
  LET l == LoadRefreshGrant(storage, ret.Code)
  IN  IF l.err # "" THEN Fail(SetErrorInternal(w, ErrInvalidGrant, <<>>, l.err))
      ELSE IF l.val = Nil THEN Fail(SetError(w, ErrUnauthorizedClient, <<>>))
      ELSE
        LET ag == l.val[1]
            scope == IF ret.Scope = <<>> THEN ag.Scope ELSE ret.Scope
        IN  IF ag.Client = Nil THEN Fail(SetError(w, ErrUnauthorizedClient, <<>>))
            ELSE IF ag.Client[1].RedirectURI = <<>>
              THEN Fail(SetError(w, ErrUnauthorizedClient, <<>>))
            ELSE IF extraScopes(ag.Scope, scope)
              THEN Fail(SetErrorInternal(w, ErrAccessDenied, <<>>,
                          "the requested scope must not include any scope not originally granted by the resource owner"))
            ELSE Ok(w, [ret EXCEPT !.AccessGrant = l.val,
                                   !.RedirectURI = ag.RedirectURI,
                                   !.UserData = ag.UserData,
                                   !.Scope = scope])

checkRefreshToken(w, ret, storage) ==
  LET l == LoadRefreshGrant(storage, ret.Code)
  IN  IF l.err # "" THEN Fail(SetErrorInternal(w, ErrInvalidGrant, <<>>, l.err))
      ELSE IF l.val = Nil THEN Fail(SetError(w, ErrUnauthorizedClient, <<>>))
      ELSE
        LET ag == l.val[1]
            scope == IF ret.Scope = <<>> THEN ag.Scope ELSE ret.Scope
        IN  IF ag.Client = Nil THEN Fail(SetError(w, ErrUnauthorizedClient, <<>>))
            ELSE IF ag.Client[1].RedirectURI = <<>>
              THEN Fail(SetError(w, ErrUnauthorizedClient, <<>>))
            ELSE IF ag.Client[1].ID # ret.Client[1].ID
              THEN Fail(SetErrorInternal(w, ErrInvalidClient, <<>>,
                          "Client id must be the same from previous token"))
            ELSE IF extraScopes(ag.Scope, scope)
              THEN Fail(SetErrorInternal(w, ErrAccessDenied, <<>>,
                          "the requested scope must not include any scope not originally granted by the resource owner"))
            ELSE Ok(w, [ret EXCEPT !.AccessGrant = l.val,
                                   !.RedirectURI = ag.RedirectURI,
                                   !.UserData = ag.UserData,
                                   !.Scope = scope])

handleRefreshTokenRequest(w, r, storage) ==
  LET a == getClientAuth(w, r, AllowClientSecretInParams)
      ret == [AccessRequest EXCEPT !.GrantType = RefreshTokenGrant,
                                   !.Code = r.refresh_token,
                                   !.Scope = r.scope,
                                   !.GenerateRefresh = TRUE,
                                   !.Expiration = AccessExpiration]
  IN  IF a.auth = Nil THEN Fail(a.w)
      ELSE IF ret.Code = "" THEN Fail(SetError(w, ErrInvalidGrant, <<>>))
      ELSE
        LET c == getClient(a.auth[1], storage, w)
        IN  IF c.client = Nil THEN After(c, Fail(c.w))
            ELSE After(c, checkRefreshToken(w, [ret EXCEPT !.Client = c.client], storage))

handlePasswordRequest(w, r, storage) ==
  LET a == getClientAuth(w, r, AllowClientSecretInParams)
      ret == [AccessRequest EXCEPT !.GrantType = PasswordGrant,
                                   !.Username = r.username,
                                   !.Password = r.password,
                                   !.Scope = r.scope,
                                   !.GenerateRefresh = TRUE,
                                   !.Expiration = AccessExpiration]
  IN  IF a.auth = Nil THEN Fail(a.w)
      ELSE IF ret.Username = "" \/ ret.Password = ""
        THEN Fail(SetError(w, ErrInvalidGrant, <<>>))
      ELSE
        LET c == getClient(a.auth[1], storage, w)
        IN  IF c.client = Nil THEN After(c, Fail(c.w))
            ELSE After(c, Ok(w, [ret EXCEPT
                                   !.Client = c.client,
                                   !.RedirectURI = firstURI(c.client[1].RedirectURI,
                                                            RedirectURISeparator)]))

\* handleClientCredentialsRequest asking for a refresh token: the fault the
\* property C18 has to detect
handleClientCredentialsWithRefresh(w, r, storage) ==
  LET a == getClientAuth(w, r, AllowClientSecretInParams)
      ret == [AccessRequest EXCEPT !.GrantType = ClientCredentialsGrant,
                                   !.Scope = r.scope,
                                   !.GenerateRefresh = TRUE,
                                   !.Expiration = AccessExpiration]
  IN  IF a.auth = Nil THEN Fail(a.w)
      ELSE
        LET c == getClient(a.auth[1], storage, w)
        IN  IF c.client = Nil THEN After(c, Fail(c.w))
            ELSE After(c, Ok(w, [ret EXCEPT
                                   !.Client = c.client,
                                   !.RedirectURI = firstURI(c.client[1].RedirectURI,
                                                            RedirectURISeparator)]))

handleClientCredentialsRequest(w, r, storage) ==
  LET a == getClientAuth(w, r, AllowClientSecretInParams)
      ret == [AccessRequest EXCEPT !.GrantType = ClientCredentialsGrant,
                                   !.Scope = r.scope,
                                   !.GenerateRefresh = FALSE,
                                   !.Expiration = AccessExpiration]
  IN  IF a.auth = Nil THEN Fail(a.w)
      ELSE
        LET c == getClient(a.auth[1], storage, w)
        IN  IF c.client = Nil THEN After(c, Fail(c.w))
            ELSE After(c, Ok(w, [ret EXCEPT
                                   !.Client = c.client,
                                   !.RedirectURI = firstURI(c.client[1].RedirectURI,
                                                            RedirectURISeparator)]))

handleAssertionRequest(w, r, storage) ==
  LET a == getClientAuth(w, r, AllowClientSecretInParams)
      ret == [AccessRequest EXCEPT !.GrantType = AssertionGrant,
                                   !.Scope = r.scope,
                                   !.AssertionType = r.assertion_type,
                                   !.Assertion = r.assertion,
                                   !.GenerateRefresh = FALSE,
                                   !.Expiration = AccessExpiration]
  IN  IF a.auth = Nil THEN Fail(a.w)
      ELSE IF ret.AssertionType = "" \/ ret.Assertion = ""
        THEN Fail(SetError(w, ErrInvalidGrant, <<>>))
      ELSE
        LET c == getClient(a.auth[1], storage, w)
        IN  IF c.client = Nil THEN After(c, Fail(c.w))
            ELSE After(c, Ok(w, [ret EXCEPT
                                   !.Client = c.client,
                                   !.RedirectURI = firstURI(c.client[1].RedirectURI,
                                                            RedirectURISeparator)]))

\* Server.HandleAccessRequest as a function of the response, the request,
\* the store and the clock
\* HandleAccessRequest dispatching every other allowed grant type to the
\* client credentials handler: the fault the property C22 has to detect
HandleAccessDefaulting(w, r, storage, now) ==
  IF r.Method = "GET" /\ ~AllowGetAccessRequest
    THEN Fail(SetErrorInternal(w, ErrInvalidRequest, <<>>, "Request must be POST"))
  ELSE IF r.Method # "GET" /\ r.Method # "POST"
    THEN Fail(SetErrorInternal(w, ErrInvalidRequest, <<>>, "Request must be POST"))
  ELSE IF r.ParseErr # ""
    THEN Fail(SetErrorInternal(w, ErrInvalidRequest, <<>>, r.ParseErr))
  ELSE IF ~isGrantTypeAllowed(r.grant_type)
    THEN Fail(SetError(w, ErrUnsupportedGrantType, <<>>))
  ELSE
    CASE r.grant_type = AuthorizationCodeGrant ->
           handleAuthorizationCodeRequest(w, r, storage, now)
      [] r.grant_type = RefreshTokenGrant -> handleRefreshTokenRequest(w, r, storage)
      [] r.grant_type = PasswordGrant -> handlePasswordRequest(w, r, storage)
      [] r.grant_type = AssertionGrant -> handleAssertionRequest(w, r, storage)
      [] OTHER -> handleClientCredentialsRequest(w, r, storage)

HandleAccess(w, r, storage, now) ==
  IF r.Method = "GET" /\ ~AllowGetAccessRequest
    THEN Fail(SetErrorInternal(w, ErrInvalidRequest, <<>>, "Request must be POST"))
  ELSE IF r.Method # "GET" /\ r.Method # "POST"
    THEN Fail(SetErrorInternal(w, ErrInvalidRequest, <<>>, "Request must be POST"))
  ELSE IF r.ParseErr # ""
    THEN Fail(SetErrorInternal(w, ErrInvalidRequest, <<>>, r.ParseErr))
  ELSE IF ~isGrantTypeAllowed(r.grant_type)
    THEN Fail(SetError(w, ErrUnsupportedGrantType, <<>>))
  ELSE
    CASE r.grant_type = AuthorizationCodeGrant ->
           handleAuthorizationCodeRequest(w, r, storage, now)
      [] r.grant_type = RefreshTokenGrant -> handleRefreshTokenRequest(w, r, storage)
      [] r.grant_type = PasswordGrant -> handlePasswordRequest(w, r, storage)
      [] r.grant_type = ClientCredentialsGrant ->
           handleClientCredentialsRequest(w, r, storage)
      [] r.grant_type = AssertionGrant -> handleAssertionRequest(w, r, storage)
      [] OTHER -> Fail(SetError(w, ErrUnsupportedGrantType, <<>>))

(***************************************************************************)
(* The token generators of the tests: counters.  gen is [counter,          *)
(* acounter, rcounter].                                                    *)
(***************************************************************************)
\* strconv.FormatInt(n, 10)
FormatInt(n) == ToString(n)

\* TestingAuthorizeTokenGen.GenerateAuthorizeToken: [gen, ret]
GenerateAuthorizeToken(gen) ==
  [gen |-> [gen EXCEPT !.counter = gen.counter + 1], ret |-> FormatInt(gen.counter + 1)]

\* TestingAccessTokenGen.GenerateAccessToken: [gen, accesstoken, refreshtoken]
GenerateAccessToken(gen, generaterefresh) ==
  [gen |-> [gen EXCEPT !.acounter = gen.acounter + 1,
                       !.rcounter = IF generaterefresh THEN gen.rcounter + 1
                                                       ELSE gen.rcounter],
   accesstoken |-> FormatInt(gen.acounter + 1),
   refreshtoken |-> IF generaterefresh THEN "r" \o FormatInt(gen.rcounter + 1) ELSE ""]

(***************************************************************************)
(* The token endpoint: Finish.  fault names the generator or storage       *)
(* operation that returns an error in this call ("none": no operation      *)
(* fails, as with the in-memory store); a storage operation that returns   *)
(* an error leaves the store as it was.  The result is [w, storage, gen,   *)
(* calls]: calls is the sequence of the generator and storage operations   *)
(* invoked, in order.                                                      *)
(***************************************************************************)
AccessGrant ==
  [Client |-> Nil, AuthorizeData |-> Nil, AccessGrant |-> Nil, AccessToken |-> "",
   RefreshToken |-> "", ExpiresIn |-> 0, Scope |-> <<>>, RedirectURI |-> <<>>,
   CreatedAt |-> 0, UserData |-> ""]

\* removeAndOutput without the call of RemoveRefreshGrant: the fault the
\* refresh property C4 has to detect
removeWithoutRefresh(w, ar, ret, st, gen, calls, fault) ==
  LET hasAuth == ret.AuthorizeData # Nil
      st1 == IF hasAuth THEN RemoveAuthorizeData(st, ret.AuthorizeData[1].Code) ELSE st
      c1 == IF hasAuth THEN Append(calls, "RemoveAuthorizeData") ELSE calls
      hasPrev == ret.AccessGrant # Nil
      st3 == IF hasPrev THEN RemoveAccessGrant(st1, ret.AccessGrant[1].AccessToken) ELSE st1
      c3 == IF hasPrev THEN Append(c1, "RemoveAccessGrant") ELSE c1
      o1 == Put(Put(Put(w.Output, "access_token", ret.AccessToken),
                    "token_type", TokenType), "expires_in", ret.ExpiresIn)
      o2 == IF ret.RefreshToken # "" THEN Put(o1, "refresh_token", ret.RefreshToken) ELSE o1
      o3 == IF ar.Scope # <<>> THEN Put(o2, "scope", ar.Scope) ELSE o2
  IN  [w |-> [w EXCEPT !.Output = o3], storage |-> st3, gen |-> gen, calls |-> c3]

\* the removal of the consumed state and the output of FinishAccessRequest,
\* once the grant ret has been saved in st
removeAndOutput(w, ar, ret, st, gen, calls, fault) ==
  LET hasAuth == ret.AuthorizeData # Nil
      st1 == IF hasAuth /\ fault # "RemoveAuthorizeData"
               THEN RemoveAuthorizeData(st, ret.AuthorizeData[1].Code) ELSE st
      c1 == IF hasAuth THEN Append(calls, "RemoveAuthorizeData") ELSE calls
      hasPrev == ret.AccessGrant # Nil
      hasRefresh == hasPrev /\ ret.AccessGrant[1].RefreshToken # ""
      st2 == IF hasRefresh /\ fault # "RemoveRefreshGrant"
               THEN RemoveRefreshGrant(st1, ret.AccessGrant[1].RefreshToken) ELSE st1
      c2 == IF hasRefresh THEN Append(c1, "RemoveRefreshGrant") ELSE c1
      st3 == IF hasPrev /\ fault # "RemoveAccessGrant"
               THEN RemoveAccessGrant(st2, ret.AccessGrant[1].AccessToken) ELSE st2
      c3 == IF hasPrev THEN Append(c2, "RemoveAccessGrant") ELSE c2
      o1 == Put(Put(Put(w.Output, "access_token", ret.AccessToken),
                    "token_type", TokenType), "expires_in", ret.ExpiresIn)
      o2 == IF ret.RefreshToken # "" THEN Put(o1, "refresh_token", ret.RefreshToken) ELSE o1
      o3 == IF ar.Scope # <<>> THEN Put(o2, "scope", ar.Scope) ELSE o2
  IN  [w |-> [w EXCEPT !.Output = o3], storage |-> st3, gen |-> gen, calls |-> c3]

\* saveAndRemove with the removal placed before the save: the fault the
\* ordering property C1 has to detect
removeThenSave(w, ar, ret, storage, gen, calls, fault) ==
  LET rem == removeAndOutput(w, ar, ret, storage, gen, calls, fault)
  IN  IF fault = "SaveAccessGrant"
        THEN [w |-> SetErrorInternal(w, ErrServerError, <<>>, "SaveAccessGrant failed"),
              storage |-> rem.storage, gen |-> gen,
              calls |-> Append(rem.calls, "SaveAccessGrant")]
        ELSE [rem EXCEPT !.storage = SaveAccessGrant(rem.storage, ret),
                         !.calls = Append(rem.calls, "SaveAccessGrant")]

\* the save of the grant ret and what follows it
saveAndRemove(w, ar, ret, storage, gen, calls, fault) ==
  IF fault = "SaveAccessGrant"
    THEN [w |-> SetErrorInternal(w, ErrServerError, <<>>, "SaveAccessGrant failed"),
          storage |-> storage, gen |-> gen, calls |-> Append(calls, "SaveAccessGrant")]
    ELSE removeAndOutput(w, ar, ret, SaveAccessGrant(storage, ret), gen,
                         Append(calls, "SaveAccessGrant"), fault)

\* FinishAccessRequest without its first check, that of the error state of
\* the response: the fault the frame property C2 has to detect
FinishAccessUnchecked(w, rURI, ar, storage, now, gen, fault) ==
  IF ~ar.Authorized
    THEN [w |-> SetError(w, ErrAccessDenied, <<>>), storage |-> storage, gen |-> gen,
          calls |-> <<>>]
  ELSE IF ar.ForceAccessGrant # Nil
    THEN saveAndRemove(w, ar, ar.ForceAccessGrant[1], storage, gen, <<>>, fault)
  ELSE IF fault = "GenerateAccessToken"
    THEN [w |-> SetErrorInternal(w, ErrServerError, <<>>, "GenerateAccessToken failed"),
          storage |-> storage, gen |-> gen, calls |-> <<"GenerateAccessToken">>]
  ELSE
    LET redirectURI == IF ar.RedirectURI # <<>> THEN ar.RedirectURI ELSE rURI
        g == GenerateAccessToken(gen, ar.GenerateRefresh)
        ret == [AccessGrant EXCEPT !.Client = ar.Client,
                                   !.AuthorizeData = ar.AuthorizeData,
                                   !.AccessGrant = ar.AccessGrant,
                                   !.RedirectURI = redirectURI,
                                   !.CreatedAt = now,
                                   !.ExpiresIn = ar.Expiration,
                                   !.UserData = ar.UserData,
                                   !.Scope = ar.Scope,
                                   !.AccessToken = g.accesstoken,
                                   !.RefreshToken = g.refreshtoken]
    IN  saveAndRemove(w, ar, ret, storage, g.gen, <<"GenerateAccessToken">>, fault)

\* Server.FinishAccessRequest; rURI is r.Form.Get("redirect_uri")
\* FinishAccessRequest revoking the presented code or refresh token of a
\* request the host has not authorized: the fault the property C15 has to
\* detect
FinishAccessRevoking(w, rURI, ar, storage, now, gen, fault) ==
  IF w.IsError THEN [w |-> w, storage |-> storage, gen |-> gen, calls |-> <<>>]
  ELSE IF ~ar.Authorized
    THEN [w |-> SetError(w, ErrAccessDenied, <<>>),
          storage |-> IF ar.AuthorizeData # Nil
                        THEN RemoveAuthorizeData(storage, ar.Code)
                        ELSE IF ar.AccessGrant # Nil
                          THEN RemoveRefreshGrant(storage, ar.Code)
                          ELSE storage,
          gen |-> gen, calls |-> <<>>]
  ELSE FinishAccessUnchecked(w, rURI, ar, storage, now, gen, fault)

\* FinishAccessRequest taking the redirect URI of the form whatever the
\* request object holds: the fault the property C37 has to detect
FinishAccessFormRedirect(w, rURI, ar, storage, now, gen, fault) ==
  IF w.IsError THEN [w |-> w, storage |-> storage, gen |-> gen, calls |-> <<>>]
  ELSE IF ~ar.Authorized
    THEN [w |-> SetError(w, ErrAccessDenied, <<>>), storage |-> storage, gen |-> gen,
          calls |-> <<>>]
  ELSE IF ar.ForceAccessGrant # Nil
    THEN saveAndRemove(w, ar, ar.ForceAccessGrant[1], storage, gen, <<>>, fault)
  ELSE IF fault = "GenerateAccessToken"
    THEN [w |-> SetErrorInternal(w, ErrServerError, <<>>, "GenerateAccessToken failed"),
          storage |-> storage, gen |-> gen, calls |-> <<"GenerateAccessToken">>]
  ELSE
    LET redirectURI == rURI
        g == GenerateAccessToken(gen, ar.GenerateRefresh)
        ret == [AccessGrant EXCEPT !.Client = ar.Client,
                                   !.AuthorizeData = ar.AuthorizeData,
                                   !.AccessGrant = ar.AccessGrant,
                                   !.RedirectURI = redirectURI,
                                   !.CreatedAt = now,
                                   !.ExpiresIn = ar.Expiration,
                                   !.UserData = ar.UserData,
                                   !.Scope = ar.Scope,
                                   !.AccessToken = g.accesstoken,
                                   !.RefreshToken = g.refreshtoken]
    IN  saveAndRemove(w, ar, ret, storage, g.gen, <<"GenerateAccessToken">>, fault)

FinishAccess(w, rURI, ar, storage, now, gen, fault) ==
  IF w.IsError THEN [w |-> w, storage |-> storage, gen |-> gen, calls |-> <<>>]
  ELSE IF ~ar.Authorized
    THEN [w |-> SetError(w, ErrAccessDenied, <<>>), storage |-> storage, gen |-> gen,
          calls |-> <<>>]
  ELSE IF ar.ForceAccessGrant # Nil
    THEN saveAndRemove(w, ar, ar.ForceAccessGrant[1], storage, gen, <<>>, fault)
  ELSE IF fault = "GenerateAccessToken"
    THEN [w |-> SetErrorInternal(w, ErrServerError, <<>>, "GenerateAccessToken failed"),
          storage |-> storage, gen |-> gen, calls |-> <<"GenerateAccessToken">>]
  ELSE
    LET redirectURI == IF ar.RedirectURI # <<>> THEN ar.RedirectURI ELSE rURI
        g == GenerateAccessToken(gen, ar.GenerateRefresh)
        ret == [AccessGrant EXCEPT !.Client = ar.Client,
                                   !.AuthorizeData = ar.AuthorizeData,
                                   !.AccessGrant = ar.AccessGrant,
                                   !.RedirectURI = redirectURI,
                                   !.CreatedAt = now,
                                   !.ExpiresIn = ar.Expiration,
                                   !.UserData = ar.UserData,
                                   !.Scope = ar.Scope,
                                   !.AccessToken = g.accesstoken,
                                   !.RefreshToken = g.refreshtoken]
    IN  saveAndRemove(w, ar, ret, storage, g.gen, <<"GenerateAccessToken">>, fault)

(***************************************************************************)
(* The authorization endpoint.                                             *)
(***************************************************************************)
AuthorizeRequest ==
  [Type |-> "", Client |-> Nil, Scope |-> <<>>, RedirectURI |-> <<>>, State |-> "",
   Authorized |-> FALSE, Expiration |-> 0, UserData |-> ""]

AuthorizeData ==
  [Client |-> Nil, Code |-> "", ExpiresIn |-> 0, Scope |-> <<>>, RedirectURI |-> <<>>,
   State |-> "", CreatedAt |-> 0, UserData |-> ""]

\* url.QueryUnescape: [val, err]; "%" stands for an invalid escape
QueryUnescape(u) ==
  IF "%" \in Symbols(u) THEN [val |-> <<>>, err |-> "invalid URL escape"]
                        ELSE [val |-> u, err |-> ""]

\* HandleAuthorizeRequest setting the redirect before the URI is validated:
\* the fault the property C36 has to detect
HandleAuthorizeRedirectFirst(w, r, storage) ==
  LET u == QueryUnescape(r.redirect_uri)
      g == GetClient(storage, r.client_id)
      st == <<r.state>>
  IN  IF r.ParseErr # ""
        THEN Fail(SetErrorInternal(w, ErrInvalidRequest, <<>>, r.ParseErr))
      ELSE IF u.err # "" THEN Fail(SetErrorInternal(w, ErrInvalidRequest, <<>>, u.err))
      ELSE IF g.err # "" THEN Fail(SetErrorInternal(w, ErrServerError, st, g.err))
      ELSE IF g.val = Nil THEN Fail(SetError(w, ErrUnauthorizedClient, st))
      ELSE IF g.val[1].RedirectURI = <<>> THEN Fail(SetError(w, ErrUnauthorizedClient, st))
      ELSE
        LET registered == g.val[1].RedirectURI
            uri == IF u.val = <<>> /\ firstURI(registered, RedirectURISeparator) = registered
                     THEN firstURI(registered, RedirectURISeparator)
                     ELSE u.val
            v == validateURIList(registered, uri, RedirectURISeparator)
            ret == [AuthorizeRequest EXCEPT !.State = r.state, !.Scope = r.scope,
                                            !.RedirectURI = uri, !.Client = g.val]
            w1 == SetRedirect(w, uri)
        IN  IF v # "ok"
              THEN Fail(SetErrorInternal(w1, ErrInvalidRequest, st, "urls don't validate"))
            ELSE IF isAuthorizeRequestTypeAllowed(r.response_type)
              THEN Ok(w1, CASE r.response_type = "code" ->
                                 [ret EXCEPT !.Type = "code",
                                             !.Expiration = AuthorizationExpiration]
                            [] r.response_type = "token" ->
                                 [ret EXCEPT !.Type = "token",
                                             !.Expiration = AccessExpiration]
                            [] OTHER -> ret)
            ELSE Fail(SetError(w1, ErrUnsupportedResponseType, st))

\* Server.HandleAuthorizeRequest: [w, ret]
HandleAuthorize(w, r, storage) ==
  LET u == QueryUnescape(r.redirect_uri)
      g == GetClient(storage, r.client_id)
      st == <<r.state>>
  IN  IF r.ParseErr # ""
        THEN Fail(SetErrorInternal(w, ErrInvalidRequest, <<>>, r.ParseErr))
      ELSE IF u.err # "" THEN Fail(SetErrorInternal(w, ErrInvalidRequest, <<>>, u.err))
      ELSE IF g.err # "" THEN Fail(SetErrorInternal(w, ErrServerError, st, g.err))
      ELSE IF g.val = Nil THEN Fail(SetError(w, ErrUnauthorizedClient, st))
      ELSE IF g.val[1].RedirectURI = <<>> THEN Fail(SetError(w, ErrUnauthorizedClient, st))
      ELSE
        LET registered == g.val[1].RedirectURI
            uri == IF u.val = <<>> /\ firstURI(registered, RedirectURISeparator) = registered
                     THEN firstURI(registered, RedirectURISeparator)
                     ELSE u.val
            v == validateURIList(registered, uri, RedirectURISeparator)
            ret == [AuthorizeRequest EXCEPT !.State = r.state, !.Scope = r.scope,
                                            !.RedirectURI = uri, !.Client = g.val]
            w1 == SetRedirect(w, uri)
        IN  IF v # "ok"
              THEN Fail(SetErrorInternal(w, ErrInvalidRequest, st, "urls don't validate"))
            ELSE IF isAuthorizeRequestTypeAllowed(r.response_type)
              THEN Ok(w1, CASE r.response_type = "code" ->
                                 [ret EXCEPT !.Type = "code",
                                             !.Expiration = AuthorizationExpiration]
                            [] r.response_type = "token" ->
                                 [ret EXCEPT !.Type = "token",
                                             !.Expiration = AccessExpiration]
                            [] OTHER -> ret)
            ELSE Fail(SetError(w1, ErrUnsupportedResponseType, st))

\* Server.FinishAuthorizeRequest: [w, storage, gen, calls]
FinishAuthorize(w, rURI, ar, storage, now, gen, fault) ==
  IF w.IsError THEN [w |-> w, storage |-> storage, gen |-> gen, calls |-> <<>>]
  ELSE
    LET w1 == SetRedirect(w, ar.RedirectURI)
    IN  IF ~ar.Authorized
          THEN [w |-> SetError(w1, ErrAccessDenied, <<ar.State>>), storage |-> storage,
                gen |-> gen, calls |-> <<>>]
        ELSE IF ar.Type = "token"
          THEN
            LET ret == [AccessRequest EXCEPT !.GrantType = ImplicitGrant,
                                             !.Code = "",
                                             !.Client = ar.Client,
                                             !.RedirectURI = ar.RedirectURI,
                                             !.Scope = ar.Scope,
                                             !.GenerateRefresh = FALSE,
                                             !.Authorized = TRUE,
                                             !.Expiration = ar.Expiration,
                                             !.UserData = ar.UserData]
                f == FinishAccess(SetRedirectFragment(w1, TRUE), rURI, ret, storage, now,
                                  gen, fault)
            IN  IF ar.State # "" /\ f.w.InternalError = ""
                  THEN [f EXCEPT !.w.Output = Put(f.w.Output, "state", ar.State)]
                  ELSE f
        ELSE IF fault = "GenerateAuthorizeToken"
          THEN [w |-> SetErrorInternal(w1, ErrServerError, <<ar.State>>,
                                       "GenerateAuthorizeToken failed"),
                storage |-> storage, gen |-> gen, calls |-> <<"GenerateAuthorizeToken">>]
        ELSE
          LET g == GenerateAuthorizeToken(gen)
              ret == [AuthorizeData EXCEPT !.Client = ar.Client,
                                           !.CreatedAt = now,
                                           !.ExpiresIn = ar.Expiration,
                                           !.RedirectURI = ar.RedirectURI,
                                           !.State = ar.State,
                                           !.Scope = ar.Scope,
                                           !.UserData = ar.UserData,
                                           !.Code = g.ret]
              calls == <<"GenerateAuthorizeToken", "SaveAuthorizeData">>
          IN  IF fault = "SaveAuthorizeData"
                THEN [w |-> SetErrorInternal(w1, ErrServerError, <<ar.State>>,
                                             "SaveAuthorizeData failed"),
                      storage |-> storage, gen |-> g.gen, calls |-> calls]
                ELSE [w |-> [w1 EXCEPT !.Output = Put(Put(w1.Output, "code", ret.Code),
                                                      "state", ret.State)],
                      storage |-> SaveAuthorizeData(storage, ret), gen |-> g.gen,
                      calls |-> calls]

(***************************************************************************)
(* The info endpoint.                                                      *)
(***************************************************************************)
\* checkBearerAuth: [auth, panic]; auth is a pointer to a BearerAuth, and
\* panic tells that s[1] was read from a one-element slice
\* checkBearerAuth giving the form field precedence over the header: the
\* fault the property C24 has to detect
checkBearerAuthFormFirst(r) ==
  LET authHeader == r.Authorization
      authForm == r.code
  IN  IF authHeader = <<>> /\ authForm = "" THEN [auth |-> Nil, panic |-> FALSE]
      ELSE IF authForm # "" THEN [auth |-> Some([Code |-> authForm]), panic |-> FALSE]
      ELSE IF Len(authHeader) # 2 \/ authHeader[1] # "Bearer"
        THEN [auth |-> Nil, panic |-> FALSE]
      ELSE [auth |-> Some([Code |-> authHeader[2]]), panic |-> FALSE]

checkBearerAuth(r) ==
  LET authHeader == r.Authorization
      authForm == r.code
  IN  IF authHeader = <<>> /\ authForm = "" THEN [auth |-> Nil, panic |-> FALSE]
      ELSE IF authHeader = <<>> THEN [auth |-> Some([Code |-> authForm]), panic |-> FALSE]
      ELSE IF (Len(authHeader) # 2 \/ authHeader[1] # "Bearer") /\ authForm = ""
        THEN [auth |-> Nil, panic |-> FALSE]
      ELSE IF Len(authHeader) < 2 THEN [auth |-> Nil, panic |-> TRUE]
      ELSE [auth |-> Some([Code |-> authHeader[2]]), panic |-> FALSE]

InfoRequest == [Code |-> "", AccessGrant |-> Nil]

\* HandleInfoRequest without the expiry test: the fault the property C30 has
\* to detect
HandleInfoOfAnyAge(w, r, storage, now) ==
  LET bearer == checkBearerAuth(r)
      NoReq(x) == [w |-> x, ret |-> Nil, panic |-> FALSE]
  IN  IF r.ParseErr # "" THEN NoReq(SetErrorInternal(w, ErrInvalidRequest, <<>>, r.ParseErr))
      ELSE IF bearer.panic THEN [w |-> w, ret |-> Nil, panic |-> TRUE]
      ELSE IF bearer.auth = Nil THEN NoReq(SetError(w, ErrInvalidRequest, <<>>))
      ELSE IF bearer.auth[1].Code = "" THEN NoReq(SetError(w, ErrInvalidRequest, <<>>))
      ELSE
        LET l == LoadAccessGrant(storage, bearer.auth[1].Code)
        IN  IF l.err # "" THEN NoReq(SetErrorInternal(w, ErrInvalidRequest, <<>>, l.err))
            ELSE IF l.val = Nil THEN NoReq(SetError(w, ErrInvalidRequest, <<>>))
            ELSE IF l.val[1].Client = Nil THEN NoReq(SetError(w, ErrUnauthorizedClient, <<>>))
            ELSE IF l.val[1].Client[1].RedirectURI = <<>>
              THEN NoReq(SetError(w, ErrUnauthorizedClient, <<>>))
            ELSE [w |-> w,
                  ret |-> Some([InfoRequest EXCEPT !.Code = bearer.auth[1].Code,
                                                   !.AccessGrant = l.val]),
                  panic |-> FALSE]

\* Server.HandleInfoRequest: [w, ret, panic]
HandleInfo(w, r, storage, now) ==
  LET bearer == checkBearerAuth(r)
      NoReq(x) == [w |-> x, ret |-> Nil, panic |-> FALSE]
  IN  IF r.ParseErr # "" THEN NoReq(SetErrorInternal(w, ErrInvalidRequest, <<>>, r.ParseErr))
      ELSE IF bearer.panic THEN [w |-> w, ret |-> Nil, panic |-> TRUE]
      ELSE IF bearer.auth = Nil THEN NoReq(SetError(w, ErrInvalidRequest, <<>>))
      ELSE IF bearer.auth[1].Code = "" THEN NoReq(SetError(w, ErrInvalidRequest, <<>>))
      ELSE
        LET l == LoadAccessGrant(storage, bearer.auth[1].Code)
        IN  IF l.err # "" THEN NoReq(SetErrorInternal(w, ErrInvalidRequest, <<>>, l.err))
            ELSE IF l.val = Nil THEN NoReq(SetError(w, ErrInvalidRequest, <<>>))
            ELSE IF l.val[1].Client = Nil THEN NoReq(SetError(w, ErrUnauthorizedClient, <<>>))
            ELSE IF l.val[1].Client[1].RedirectURI = <<>>
              THEN NoReq(SetError(w, ErrUnauthorizedClient, <<>>))
            ELSE IF IsExpiredAt(l.val[1], now) THEN NoReq(SetError(w, ErrInvalidGrant, <<>>))
            ELSE [w |-> w,
                  ret |-> Some([InfoRequest EXCEPT !.Code = bearer.auth[1].Code,
                                                   !.AccessGrant = l.val]),
                  panic |-> FALSE]

\* Server.FinishInfoRequest: the response
FinishInfo(w, ir, now) ==
  IF w.IsError THEN w
  ELSE
    LET ag == ir.AccessGrant[1]
        o1 == Put(Put(Put(Put(w.Output, "client_id", ag.Client[1].ID),
                          "access_token", ag.AccessToken),
                      "token_type", TokenType),
                  "expires_in", ExpireAt(ag) - now)
        o2 == IF ag.RefreshToken # "" THEN Put(o1, "refresh_token", ag.RefreshToken) ELSE o1
        o3 == IF ag.Scope # <<>> THEN Put(o2, "scope", ag.Scope) ELSE o2
    IN  [w EXCEPT !.Output = o3]

(***************************************************************************)
(* The requests the clients send.                                          *)
(***************************************************************************)
Request ==
  [Method |-> "POST", ParseErr |-> "", Authorization |-> <<>>, grant_type |-> "",
   response_type |-> "", client_id |-> "", client_secret |-> Nil, code |-> "",
   refresh_token |-> "", redirect_uri |-> <<>>, scope |-> <<>>, state |-> "",
   username |-> "", password |-> "", assertion_type |-> "", assertion |-> ""]

BasicPayloads ==
  {"MTIzNDphYWJiY2NkZA==", "MTIzNDp3cm9uZw==", "NTY3ODplZWZmZ2doaA==",
   "MDAwMDppaWpqa2tsbA==", "NDMyMTphYWJiY2NkZA==", "bm9jb2xvbg==", "!!!"}

\* the ways a request carries client credentials: [Authorization,
\* client_id, client_secret]
Credentials ==
  {[Authorization |-> <<"Basic", p>>, client_id |-> "", client_secret |-> Nil] :
     p \in BasicPayloads}
  \cup {[Authorization |-> <<>>, client_id |-> "", client_secret |-> Nil],
        [Authorization |-> <<"Digest", "XHHHHHHH">>, client_id |-> "",
         client_secret |-> Nil],
        [Authorization |-> <<>>, client_id |-> "1234",
         client_secret |-> Some("aabbccdd")],
        [Authorization |-> <<"Basic", "NTY3ODplZWZmZ2doaA==">>, client_id |-> "1234",
         client_secret |-> Some("wrong")],
        [Authorization |-> <<"Basic", "NTY3ODplZWZmZ2doaA==">>, client_id |-> "",
         client_secret |-> Some("aabbccdd")]}

WithCredentials(r, c) ==
  [r EXCEPT !.Authorization = c.Authorization, !.client_id = c.client_id,
            !.client_secret = c.client_secret]

\* the credentials of Client1 and of Client2 in the Authorization header
Header1 ==
  [Authorization |-> <<"Basic", "MTIzNDphYWJiY2NkZA==">>, client_id |-> "",
   client_secret |-> Nil]

Header2 ==
  [Authorization |-> <<"Basic", "NTY3ODplZWZmZ2doaA==">>, client_id |-> "",
   client_secret |-> Nil]

ScopeAB == <<"a", ",", "b">>

\* the codes and access tokens a request may present
Codes ==
  {"", "9999"} \cup {FormatInt(i) : i \in 1..MaxCodes}
    \cup {FormatInt(i) : i \in 1..MaxTokens}

RefreshTokens == {"", "r9999"} \cup {"r" \o FormatInt(i) : i \in 1..MaxTokens}

AuthorizationCodeRequests ==
  {WithCredentials([Request EXCEPT !.grant_type = AuthorizationCodeGrant,
                                   !.code = c, !.redirect_uri = u], a) :
     c \in Codes, u \in {<<>>, U_A, U_AB}, a \in {Header1, Header2}}
  \cup {WithCredentials([Request EXCEPT !.grant_type = AuthorizationCodeGrant,
                                        !.code = "9999", !.redirect_uri = U_A], a) :
          a \in Credentials}

RefreshTokenRequests ==
  {WithCredentials([Request EXCEPT !.grant_type = RefreshTokenGrant,
                                   !.refresh_token = t, !.scope = sc], a) :
     t \in RefreshTokens, sc \in {<<>>, <<"a">>, <<"a", ",", "c">>},
     a \in {Header1, Header2}}
  \cup {WithCredentials([Request EXCEPT !.grant_type = RefreshTokenGrant,
                                        !.refresh_token = "r9999"], a) :
          a \in Credentials}

\* the credentials the other grant types are tried with: Client1's, a wrong
\* secret, Client3's (no redirect URI registered), an unknown client, none
FewCredentials ==
  {c \in Credentials :
     /\ c.client_id = ""
     /\ c.Authorization \in {<<>>, <<"Basic", "MTIzNDphYWJiY2NkZA==">>,
                             <<"Basic", "MTIzNDp3cm9uZw==">>,
                             <<"Basic", "MDAwMDppaWpqa2tsbA==">>,
                             <<"Basic", "NDMyMTphYWJiY2NkZA==">>}}

PasswordRequests ==
  {WithCredentials([Request EXCEPT !.grant_type = PasswordGrant, !.username = "u",
                                   !.password = pw, !.scope = ScopeAB], a) :
     pw \in {"", "p"}, a \in FewCredentials}

ClientCredentialsRequests ==
  {WithCredentials([Request EXCEPT !.grant_type = ClientCredentialsGrant], a) :
     a \in FewCredentials}

AssertionRequests ==
  {WithCredentials([Request EXCEPT !.grant_type = AssertionGrant,
                                   !.assertion_type = "t", !.assertion = as], a) :
     as \in {"", "x"}, a \in FewCredentials}

OtherTokenRequests ==
  {WithCredentials([Request EXCEPT !.grant_type = gt, !.Method = m, !.ParseErr = e],
                   Header1) :
     gt \in {"bogus", ImplicitGrant, PasswordGrant}, m \in {"GET", "POST", "PUT"},
     e \in {"", "invalid semicolon separator in query"}}

\* requests for no grant type or one the handler has no case for, without
\* credentials, of a client that is not registered, with a wrong secret
UnsupportedGrantRequests ==
  {WithCredentials([Request EXCEPT !.grant_type = gt], a) :
     gt \in {"", "bogus", ImplicitGrant},
     a \in {c \in FewCredentials :
              c.Authorization \in {<<>>, <<"Basic", "MTIzNDp3cm9uZw==">>,
                                   <<"Basic", "NDMyMTphYWJiY2NkZA==">>}}}

TokenRequests ==
  AuthorizationCodeRequests \cup RefreshTokenRequests \cup PasswordRequests
    \cup ClientCredentialsRequests \cup AssertionRequests \cup OtherTokenRequests
    \cup UnsupportedGrantRequests

\* authorization requests whose redirect URI has a fragment
FragmentRequests ==
  {[Request EXCEPT !.Method = "GET", !.client_id = "1234",
                   !.redirect_uri = U_A \o <<"#", "a">>, !.response_type = t,
                   !.state = "xyz"] : t \in {"code", "bogus"}}

AuthorizeRequests ==
  {[Request EXCEPT !.Method = "GET", !.client_id = c, !.redirect_uri = u,
                   !.response_type = "code", !.state = "xyz", !.scope = ScopeAB] :
     c \in {"1234", "5678", "0000", "4321"}, u \in {<<>>, U_AB, <<"%">>}}
  \cup {[Request EXCEPT !.Method = "GET", !.client_id = "1234", !.redirect_uri = u,
                        !.response_type = t, !.ParseErr = e] :
          u \in {U_A, U_B}, t \in {"token", "id_token", "bogus"},
          e \in {"", "invalid semicolon separator in query"}}
  \cup {[Request EXCEPT !.Method = "GET", !.client_id = "1234", !.redirect_uri = U_A,
                        !.response_type = "token", !.state = "xyz",
                        !.scope = ScopeAB]}
  \cup FragmentRequests

InfoRequests ==
  {[Request EXCEPT !.Method = "GET", !.Authorization = h, !.code = c] :
     h \in {<<>>, <<"Bearer">>, <<"Basic", "9999">>}
             \cup {<<"Bearer", t>> : t \in Codes},
     c \in Codes}
  \cup {[Request EXCEPT !.Method = "GET", !.code = "9999",
                        !.ParseErr = "invalid semicolon separator in query"]}

\* what a generator or the storage may fail at during one Finish
AccessFaults == {"none", "GenerateAccessToken", "SaveAccessGrant"}

Faults == AccessFaults \cup {"GenerateAuthorizeToken", "SaveAuthorizeData"}

(***************************************************************************)
(* The state.                                                              *)
(*   ms     the in-memory store (Clients, AuthorizeData, AccessGrants,     *)
(*          RefreshGrants)                                                 *)
(*   now    the server clock, Server.Now()                                 *)
(*   gen    the counters of the token generators                           *)
(*   pc     the endpoint whose Handle has run for the request being        *)
(*          served ("idle": none); done tells whether its Finish has run   *)
(*   w      the response of the request being served                       *)
(*   req    the request object Handle returned (a pointer)                 *)
(*   form   the HTTP request being served                                  *)
(*   calls  the generator and storage operations the last Finish invoked   *)
(*   fault  the operation that failed in the last Finish                   *)
(*   getSecretCalled  whether the last Handle called a client's GetSecret  *)
(*   spent  the codes and refresh tokens of the token requests that were   *)
(*          finished with success and a newly generated grant (history)    *)
(***************************************************************************)
VARIABLES ms, now, gen, pc, done, w, req, form, calls, fault, getSecretCalled, spent

vars == <<ms, now, gen, pc, done, w, req, form, calls, fault, getSecretCalled, spent>>

\* NewTestStorage, with the two more clients of the model, and a scope on
\* the preconfigured code and grant
TestStorage ==
  LET s1 == SetClient(SetClient(SetClient(NewMemStorage, "1234", Client1),
                                "5678", Client2), "0000", Client3)
      ad == [AuthorizeData EXCEPT !.Client = Some(s1.Clients["1234"]), !.Code = "9999",
                                  !.ExpiresIn = AccessExpiration, !.CreatedAt = 0,
                                  !.RedirectURI = U_A, !.Scope = ScopeAB]
      s2 == SaveAuthorizeData(s1, ad)
      g1 == [AccessGrant EXCEPT !.Client = Some(s1.Clients["1234"]),
                                !.AuthorizeData = Some(s2.AuthorizeData["9999"]),
                                !.AccessToken = "9999", !.ExpiresIn = AccessExpiration,
                                !.CreatedAt = 0, !.Scope = ScopeAB]
      s3 == SaveAccessGrant(s2, g1)
      g2 == [g1 EXCEPT !.AccessGrant = Some(s3.AccessGrants["9999"]),
                       !.RefreshToken = "r9999"]
      s4 == SaveAccessGrant(s3, g2)
  IN  [s4 EXCEPT !.RefreshGrants = Put(s4.RefreshGrants, "r9999", "9999")]

Init ==
  /\ ms = TestStorage
  /\ now = 0
  /\ gen = [counter |-> 0, acounter |-> 0, rcounter |-> 0]
  /\ pc = "idle"
  /\ done = FALSE
  /\ w = NewResponse
  /\ req = Nil
  /\ form = Request
  /\ calls = <<>>
  /\ fault = "none"
  /\ getSecretCalled = FALSE
  /\ spent = {}

\* the operation that failed in a Finish that was to fail at f and invoked
\* calls: none when f was not invoked
Failed(f, cs) == IF \E i \in 1..Len(cs) : cs[i] = f THEN f ELSE "none"

\* the clock advances between two requests
Tick ==
  /\ now < MaxTime
  /\ pc = "idle"
  /\ now' = now + 1
  /\ UNCHANGED <<ms, gen, pc, done, w, req, form, calls, fault, getSecretCalled, spent>>

\* the host makes the response of the next request: Server.NewResponse
NewRequest ==
  /\ pc # "idle"
  /\ pc' = "idle"
  /\ done' = FALSE
  /\ w' = NewResponse
  /\ req' = Nil
  /\ form' = Request
  /\ calls' = <<>>
  /\ fault' = "none"
  /\ getSecretCalled' = FALSE
  /\ UNCHANGED <<ms, now, gen, spent>>

\* HandleAccessRequest removing the code it has loaded: the fault the frame
\* property C38 has to detect
HandleAccessConsuming ==
  /\ pc = "idle"
  /\ \E r \in TokenRequests :
       LET res == HandleAccess(w, r, ms, now)
       IN  /\ w' = res.w
           /\ req' = res.ret
           /\ getSecretCalled' = res.getSecret
           /\ form' = r
           /\ ms' = IF res.ret # Nil THEN RemoveAuthorizeData(ms, r.code) ELSE ms
  /\ pc' = "token"
  /\ UNCHANGED <<now, gen, done, calls, fault, spent>>

HandleAccessRequest ==
  /\ pc = "idle"
  /\ \E r \in TokenRequests :
       LET res == HandleAccess(w, r, ms, now)
       IN  /\ w' = res.w
           /\ req' = res.ret
           /\ getSecretCalled' = res.getSecret
           /\ form' = r
  /\ pc' = "token"
  /\ UNCHANGED <<ms, now, gen, done, calls, fault, spent>>

\* the grants the host may pass as ForceAccessGrant: none, or a stored one
ForceChoices == {Nil} \cup {Some(ms.AccessGrants[t]) : t \in DOMAIN ms.AccessGrants}

\* the host sets Authorized (and ForceAccessGrant) on the request object and
\* calls Finish; it may call Finish again on a response that is in error state
FinishAccessRequest ==
  /\ pc = "token"
  /\ IF done THEN w.IsError ELSE (req # Nil \/ w.IsError)
  /\ \E authorized \in BOOLEAN, force \in ForceChoices, f \in AccessFaults :
       LET ar == IF req = Nil THEN AccessRequest
                 ELSE [req[1] EXCEPT !.Authorized = authorized,
                                     !.ForceAccessGrant = force]
           res == FinishAccess(w, form.redirect_uri, ar, ms, now, gen, f)
       IN  /\ res.gen.counter <= MaxCodes /\ res.gen.acounter <= MaxTokens
           /\ w' = res.w
           /\ ms' = res.storage
           /\ gen' = res.gen
           /\ calls' = res.calls
           /\ fault' = Failed(f, res.calls)
           /\ spent' = IF ~w.IsError /\ ~res.w.IsError /\ force = Nil
                            /\ ar.GrantType \in {AuthorizationCodeGrant, RefreshTokenGrant}
                          THEN spent \cup {[grant |-> ar.GrantType, token |-> ar.Code]}
                          ELSE spent
  /\ done' = TRUE
  /\ UNCHANGED <<now, pc, req, form, getSecretCalled>>

HandleAuthorizeRequest ==
  /\ pc = "idle"
  /\ \E r \in AuthorizeRequests :
       LET res == HandleAuthorize(w, r, ms)
       IN  /\ w' = res.w
           /\ req' = res.ret
           /\ getSecretCalled' = res.getSecret
           /\ form' = r
  /\ pc' = "authorize"
  /\ UNCHANGED <<ms, now, gen, done, calls, fault, spent>>

FinishAuthorizeRequest ==
  /\ pc = "authorize"
  /\ IF done THEN w.IsError ELSE (req # Nil \/ w.IsError)
  /\ \E authorized \in BOOLEAN, f \in Faults :
       LET ar == IF req = Nil THEN AuthorizeRequest
                 ELSE [req[1] EXCEPT !.Authorized = authorized]
           res == FinishAuthorize(w, form.redirect_uri, ar, ms, now, gen, f)
       IN  /\ res.gen.counter <= MaxCodes /\ res.gen.acounter <= MaxTokens
           /\ w' = res.w
           /\ ms' = res.storage
           /\ gen' = res.gen
           /\ calls' = res.calls
           /\ fault' = Failed(f, res.calls)
  /\ done' = TRUE
  /\ UNCHANGED <<now, pc, req, form, getSecretCalled, spent>>

\* a panic of the handler ends the request without a response: pc = "panic"
HandleInfoRequest ==
  /\ pc = "idle"
  /\ \E r \in InfoRequests :
       LET res == HandleInfo(w, r, ms, now)
       IN  /\ w' = res.w
           /\ req' = res.ret
           /\ pc' = IF res.panic THEN "panic" ELSE "info"
           /\ form' = r
  /\ UNCHANGED <<ms, now, gen, done, calls, fault, getSecretCalled, spent>>

FinishInfoRequest ==
  /\ pc = "info"
  /\ IF done THEN w.IsError ELSE (req # Nil \/ w.IsError)
  /\ w' = FinishInfo(w, IF req = Nil THEN InfoRequest ELSE req[1], now)
  /\ done' = TRUE
  /\ calls' = <<>>
  /\ fault' = "none"
  /\ UNCHANGED <<ms, now, gen, pc, req, form, getSecretCalled, spent>>

Next ==
  \/ Tick
  \/ NewRequest
  \/ HandleAccessRequest
  \/ FinishAccessRequest
  \/ HandleAuthorizeRequest
  \/ FinishAuthorizeRequest
  \/ HandleInfoRequest
  \/ FinishInfoRequest

\* the host serves one request at a time: Handle, then Finish, then the next
Spec == Init /\ [][Next]_vars

(***************************************************************************)
(* The refresh handler over scope strings: the stored grant of refresh     *)
(* token r9999 carries any scope of at most MaxLen characters, and so does *)
(* the refresh request.                                                    *)
(***************************************************************************)
ScopeStrings == StringsUpTo({"a", "b", ","}, MaxLen)

\* the two grants NewTestStorage saves have one scope
ScopeStorage(sc) ==
  [TestStorage EXCEPT !.AccessGrants["9999"].Scope = sc,
                      !.AccessGrants["9999"].AccessGrant[1].Scope = sc]

ScopeInit ==
  /\ \E sc \in ScopeStrings : ms = ScopeStorage(sc)
  /\ now = 0
  /\ gen = [counter |-> 0, acounter |-> 0, rcounter |-> 0]
  /\ pc = "idle"
  /\ done = FALSE
  /\ w = NewResponse
  /\ req = Nil
  /\ form = Request
  /\ calls = <<>>
  /\ fault = "none"
  /\ getSecretCalled = FALSE
  /\ spent = {}

RefreshWithScope ==
  /\ pc = "idle"
  /\ \E sc \in ScopeStrings, a \in {Header1, Header2} :
       LET r == WithCredentials([Request EXCEPT !.grant_type = RefreshTokenGrant,
                                                !.refresh_token = "r9999",
                                                !.scope = sc], a)
           res == HandleAccess(w, r, ms, now)
       IN  /\ w' = res.w
           /\ req' = res.ret
           /\ getSecretCalled' = res.getSecret
           /\ form' = r
  /\ pc' = "token"
  /\ UNCHANGED <<ms, now, gen, done, calls, fault, spent>>

ScopeNext ==
  \/ RefreshWithScope
  \/ NewRequest

ScopeSpec == ScopeInit /\ [][ScopeNext]_vars

(***************************************************************************)
(* Chains of refreshes: the client of the stored grant refreshes the       *)
(* newest grant up to MaxChain times, each time with any scope string, and *)
(* the host of the tests finishes, changing only the Authorized flag.      *)
(***************************************************************************)
RefreshChain ==
  /\ pc = "idle"
  /\ gen.acounter < MaxChain
  /\ \E t \in DOMAIN ms.RefreshGrants, sc \in ScopeStrings :
       LET r == WithCredentials([Request EXCEPT !.grant_type = RefreshTokenGrant,
                                                !.refresh_token = t,
                                                !.scope = sc], Header1)
           res == HandleAccess(w, r, ms, now)
       IN  /\ w' = res.w
           /\ req' = res.ret
           /\ getSecretCalled' = res.getSecret
           /\ form' = r
  /\ pc' = "token"
  /\ UNCHANGED <<ms, now, gen, done, calls, fault, spent>>

FinishRefresh ==
  /\ pc = "token" /\ ~done
  /\ req # Nil \/ w.IsError
  /\ \E authorized \in BOOLEAN :
       LET ar == IF req = Nil THEN AccessRequest
                 ELSE [req[1] EXCEPT !.Authorized = authorized]
           res == FinishAccess(w, form.redirect_uri, ar, ms, now, gen, "none")
       IN  /\ w' = res.w
           /\ ms' = res.storage
           /\ gen' = res.gen
           /\ calls' = res.calls
  /\ done' = TRUE
  /\ UNCHANGED <<now, pc, req, form, fault, getSecretCalled, spent>>

ChainNext ==
  \/ RefreshChain
  \/ FinishRefresh
  \/ NewRequest

ChainSpec == ScopeInit /\ [][ChainNext]_vars

(***************************************************************************)
(* The endpoints over a storage whose remove operations can fail as well:  *)
(* the host of the example server, which sets only Authorized, at one      *)
(* instant.                                                                *)
(***************************************************************************)
RemoveFaults == {"RemoveAuthorizeData", "RemoveRefreshGrant", "RemoveAccessGrant"}

FinishAccessFaulty ==
  /\ pc = "token"
  /\ IF done THEN w.IsError ELSE (req # Nil \/ w.IsError)
  /\ \E authorized \in BOOLEAN, f \in AccessFaults \cup RemoveFaults :
       LET ar == IF req = Nil THEN AccessRequest
                 ELSE [req[1] EXCEPT !.Authorized = authorized]
           res == FinishAccess(w, form.redirect_uri, ar, ms, now, gen, f)
       IN  /\ res.gen.acounter <= MaxTokens
           /\ w' = res.w
           /\ ms' = res.storage
           /\ gen' = res.gen
           /\ calls' = res.calls
           /\ fault' = Failed(f, res.calls)
  /\ done' = TRUE
  /\ UNCHANGED <<now, pc, req, form, getSecretCalled, spent>>

FaultNext ==
  \/ NewRequest
  \/ HandleAccessRequest
  \/ FinishAccessFaulty
  \/ HandleAuthorizeRequest
  \/ FinishAuthorizeRequest
  \/ HandleInfoRequest
  \/ FinishInfoRequest

FaultSpec == Init /\ [][FaultNext]_vars

(***************************************************************************)
(* The URI validator over URI strings.  In this specification form holds   *)
(* the arguments of the call and w the error returned: "ok" (nil),         *)
(* "invalid" (a URIValidationError) or "error" (any other error).          *)
(***************************************************************************)
\* the longest path of a redirect URI
MaxPath == 5

\* the longest list of base URIs
MaxList == 3

PathSymbols == {"/", "a", "."}

Origin == <<"http:", "//h">>

\* URIs that are blank, of another scheme or host, relative, with a fragment,
\* with an empty fragment, or not parseable
OtherURIs ==
  {<<>>, <<"https:", "//h", "/", "a">>, <<"http:", "//g", "/", "a">>, <<"/", "a">>,
   Origin \o <<"/", "a", "#", "a">>, Origin \o <<"/", "a", "#">>,
   Origin \o <<"/", "a", "%">>}

BaseURIs == {Origin \o p : p \in StringsUpTo(PathSymbols, MaxLen)} \cup OtherURIs

\* the paths of TestValidateURI that are longer than MaxPath or have other
\* symbols
TestPaths ==
  {<<"/", "a", "/", "b">>, <<"/", "a", "b">>, <<"/", "a", ".", ".", "/", "x">>,
   <<"/", "a", "/", ".", ".", "/", "x">>, <<"/", "a", "/", ".", ".", ".">>,
   <<"/", "a", "/", "/", ".", ".">>}

RedirectURIs ==
  {Origin \o p : p \in StringsUpTo(PathSymbols, MaxPath) \cup TestPaths} \cup OtherURIs

Separators == {<<>>, <<"|">>, <<";">>}

RECURSIVE Join(_, _)
\* strings.Join
Join(l, sep) ==
  IF l = <<>> THEN <<>>
  ELSE IF Len(l) = 1 THEN l[1]
  ELSE l[1] \o sep \o Join(Tail(l), sep)

\* the base URIs a client registers in a list
ListedURIs == {U_A, U_B, <<"http:", "//g", "/", "a">>, Origin \o <<"/", "a", "#", "a">>,
               Origin \o <<"/", "a", "%">>, <<>>}

URILists == UNION {[1..k -> ListedURIs] : k \in 1..MaxList}

URIArguments ==
  {[baseURI |-> b, redirectURI |-> r, separator |-> <<>>] :
     b \in BaseURIs, r \in RedirectURIs}
  \cup {[baseURI |-> Join(l, sep), redirectURI |-> r, separator |-> sep] :
          l \in URILists, r \in {U_A, U_AB, U_B}, sep \in Separators}

URIInit ==
  /\ ms = TestStorage
  /\ now = 0
  /\ gen = [counter |-> 0, acounter |-> 0, rcounter |-> 0]
  /\ pc = "idle"
  /\ done = FALSE
  /\ w = NewResponse
  /\ req = Nil
  /\ form \in URIArguments
  /\ calls = <<>>
  /\ fault = "none"
  /\ getSecretCalled = FALSE
  /\ spent = {}

ValidateURI ==
  /\ pc = "idle"
  /\ w' = validateURI(form.baseURI, form.redirectURI)
  /\ pc' = "validateURI"
  /\ UNCHANGED <<ms, now, gen, done, req, form, calls, fault, getSecretCalled, spent>>

ValidateURIList ==
  /\ pc = "idle"
  /\ w' = validateURIList(form.baseURI, form.redirectURI, form.separator)
  /\ pc' = "validateURIList"
  /\ UNCHANGED <<ms, now, gen, done, req, form, calls, fault, getSecretCalled, spent>>

URINext ==
  \/ ValidateURI
  \/ ValidateURIList

URISpec == URIInit /\ [][URINext]_vars

(***************************************************************************)
(* Sequences of SetError on one response.  In this specification calls     *)
(* holds the arguments of the calls made so far.                           *)
(***************************************************************************)
\* the longest sequence of SetError calls
MaxErrors == 3

\* http.StatusInternalServerError
StatusInternalServerError == 500

\* the outputs a response holds before an error is set
Outputs ==
  {EmptyMap,
   Put(Put(EmptyMap, "access_token", "1"), "token_type", TokenType),
   Put(Put(EmptyMap, "code", "1"), "state", "xyz"),
   Put(EmptyMap, "state", "abc")}

\* the responses a handler sets an error on: new, or redirecting, with the
\* configured status code or the one of TestErrorResponseJSON
Responses ==
  {[NewResponse EXCEPT !.HttpStatusCode = h, !.Output = o] :
     h \in {StatusOK, StatusInternalServerError}, o \in Outputs}
  \cup {[SetRedirectFragment(SetRedirect(NewResponse, U_A), f)
           EXCEPT !.HttpStatusCode = h, !.Output = o] :
          h \in {StatusOK, StatusInternalServerError}, o \in Outputs, f \in BOOLEAN}

\* the arguments of SetError: state is <<>> when no state is passed
ErrorArguments ==
  {[e |-> e, state |-> st] :
     e \in {ErrInvalidRequest, ErrAccessDenied, ErrServerError},
     st \in {<<>>, <<"">>, <<"xyz">>, <<"abc">>}}

ErrorInit ==
  /\ ms = TestStorage
  /\ now = 0
  /\ gen = [counter |-> 0, acounter |-> 0, rcounter |-> 0]
  /\ pc = "idle"
  /\ done = FALSE
  /\ w \in Responses
  /\ req = Nil
  /\ form = Request
  /\ calls = <<>>
  /\ fault = "none"
  /\ getSecretCalled = FALSE
  /\ spent = {}

SetErrorCall ==
  /\ Len(calls) < MaxErrors
  /\ \E a \in ErrorArguments :
       /\ w' = SetError(w, a.e, a.state)
       /\ calls' = Append(calls, a)
  /\ UNCHANGED <<ms, now, gen, pc, done, req, form, fault, getSecretCalled, spent>>

ErrorNext == SetErrorCall

ErrorSpec == ErrorInit /\ [][ErrorNext]_vars

(***************************************************************************)
(* The grant of an authorization code and the grants issued by refreshing  *)
(* it: the code of the store carries user data, the client exchanges it    *)
(* and refreshes the grants the endpoint issued, sending a scope and a     *)
(* redirect URI of its own; the host changes only the Authorized flag.     *)
(***************************************************************************)
\* the most grants the endpoint issues
MaxGrants == 3

\* the store of the tests, the host having set user data at authorization
UserDataStorage == [TestStorage EXCEPT !.AuthorizeData["9999"].UserData = "ud"]

GrantInit ==
  /\ ms = UserDataStorage
  /\ now = 0
  /\ gen = [counter |-> 0, acounter |-> 0, rcounter |-> 0]
  /\ pc = "idle"
  /\ done = FALSE
  /\ w = NewResponse
  /\ req = Nil
  /\ form = Request
  /\ calls = <<>>
  /\ fault = "none"
  /\ getSecretCalled = FALSE
  /\ spent = {}

ExchangeCode ==
  /\ pc = "idle"
  /\ gen.acounter < MaxGrants
  /\ \E u \in {<<>>, U_A, U_AB}, sc \in {<<>>, <<"c">>}, a \in {Header1, Header2} :
       LET r == WithCredentials([Request EXCEPT !.grant_type = AuthorizationCodeGrant,
                                                !.code = "9999",
                                                !.redirect_uri = u,
                                                !.scope = sc], a)
           res == HandleAccess(w, r, ms, now)
       IN  /\ w' = res.w
           /\ req' = res.ret
           /\ getSecretCalled' = res.getSecret
           /\ form' = r
  /\ pc' = "token"
  /\ UNCHANGED <<ms, now, gen, done, calls, fault, spent>>

RefreshIssued ==
  /\ pc = "idle"
  /\ gen.acounter < MaxGrants
  /\ \E t \in DOMAIN ms.RefreshGrants \ DOMAIN UserDataStorage.RefreshGrants,
        u \in {<<>>, U_B}, sc \in {<<>>, <<"a">>, <<"c">>} :
       LET r == WithCredentials([Request EXCEPT !.grant_type = RefreshTokenGrant,
                                                !.refresh_token = t,
                                                !.redirect_uri = u,
                                                !.scope = sc], Header1)
           res == HandleAccess(w, r, ms, now)
       IN  /\ w' = res.w
           /\ req' = res.ret
           /\ getSecretCalled' = res.getSecret
           /\ form' = r
  /\ pc' = "token"
  /\ UNCHANGED <<ms, now, gen, done, calls, fault, spent>>

GrantNext ==
  \/ Tick
  \/ ExchangeCode
  \/ RefreshIssued
  \/ FinishRefresh
  \/ NewRequest

GrantSpec == GrantInit /\ [][GrantNext]_vars

(***************************************************************************)
(* Concurrent token requests.  The host serves each request in a goroutine *)
(* of its own, over the one MemStorage: Procs are the goroutines, and in   *)
(* this specification pc, w, req and form are functions of the goroutine.  *)
(* pc[p] is [at, ret]: at names the operation FinishAccessRequest does     *)
(* next ("idle": no request; "finish": Handle has returned a request;      *)
(* "done": the response is complete), ret is its local variable ret.  A    *)
(* step is one operation of the store, which holds the lock of MemStorage  *)
(* from its beginning to its end, or one call of the generator.  Handle    *)
(* only reads and is one step.  spent records, for every response with a   *)
(* grant, the grant type, the code or refresh token presented and the      *)
(* access token issued.                                                    *)
(***************************************************************************)
Procs == {1, 2}

\* the most grants the generator issues
MaxConcGrants == 2

\* the requests of the client of the stored code and grant
ConcRequests ==
  {WithCredentials([Request EXCEPT !.grant_type = AuthorizationCodeGrant,
                                   !.code = "9999", !.redirect_uri = U_A], Header1),
   WithCredentials([Request EXCEPT !.grant_type = ClientCredentialsGrant], Header1)}
  \cup {WithCredentials([Request EXCEPT !.grant_type = RefreshTokenGrant,
                                        !.refresh_token = t], Header1) :
          t \in {"r9999", "r1"}}

At(p, a) == [pc EXCEPT ![p] = [at |-> a, ret |-> pc[p].ret]]

ConcInit ==
  /\ ms = TestStorage
  /\ now = 0
  /\ gen = [counter |-> 0, acounter |-> 0, rcounter |-> 0]
  /\ pc = [p \in Procs |-> [at |-> "idle", ret |-> Nil]]
  /\ done = FALSE
  /\ w = [p \in Procs |-> NewResponse]
  /\ req = [p \in Procs |-> Nil]
  /\ form = [p \in Procs |-> Request]
  /\ calls = <<>>
  /\ fault = "none"
  /\ getSecretCalled = FALSE
  /\ spent = {}

\* Server.HandleAccessRequest in goroutine p
ConcHandle(p) ==
  /\ pc[p].at = "idle"
  /\ gen.acounter < MaxConcGrants
  /\ \E r \in ConcRequests :
       LET res == HandleAccess(NewResponse, r, ms, now)
       IN  /\ w' = [w EXCEPT ![p] = res.w]
           /\ req' = [req EXCEPT ![p] = res.ret]
           /\ form' = [form EXCEPT ![p] = r]
           /\ pc' = At(p, IF res.ret = Nil THEN "done" ELSE "finish")
  /\ UNCHANGED <<ms, now, gen, done, calls, fault, getSecretCalled, spent>>

\* FinishAccessRequest up to the generator: the host has set Authorized
ConcGenerate(p) ==
  /\ pc[p].at = "finish"
  /\ \E authorized \in BOOLEAN :
       IF ~authorized
         THEN /\ w' = [w EXCEPT ![p] = SetError(w[p], ErrAccessDenied, <<>>)]
              /\ pc' = At(p, "done")
              /\ gen' = gen
         ELSE LET ar == req[p][1]
                  g == GenerateAccessToken(gen, ar.GenerateRefresh)
                  ret == [AccessGrant EXCEPT
                            !.Client = ar.Client,
                            !.AuthorizeData = ar.AuthorizeData,
                            !.AccessGrant = ar.AccessGrant,
                            !.RedirectURI = IF ar.RedirectURI # <<>> THEN ar.RedirectURI
                                            ELSE form[p].redirect_uri,
                            !.CreatedAt = now,
                            !.ExpiresIn = ar.Expiration,
                            !.UserData = ar.UserData,
                            !.Scope = ar.Scope,
                            !.AccessToken = g.accesstoken,
                            !.RefreshToken = g.refreshtoken]
              IN  /\ gen' = g.gen
                  /\ pc' = [pc EXCEPT ![p] = [at |-> "SaveAccessGrant", ret |-> Some(ret)]]
                  /\ w' = w
  /\ UNCHANGED <<ms, now, done, req, form, calls, fault, getSecretCalled, spent>>

\* the operation that follows the save, the removal of the authorization
\* data and the removal of the refresh index in FinishAccessRequest
AfterRefresh(ret) == IF ret.AccessGrant # Nil THEN "RemoveAccessGrant" ELSE "output"

AfterAuthorize(ret) ==
  IF ret.AccessGrant # Nil /\ ret.AccessGrant[1].RefreshToken # ""
    THEN "RemoveRefreshGrant" ELSE AfterRefresh(ret)

AfterSave(ret) == IF ret.AuthorizeData # Nil THEN "RemoveAuthorizeData" ELSE AfterAuthorize(ret)

ConcSave(p) ==
  /\ pc[p].at = "SaveAccessGrant"
  /\ ms' = SaveAccessGrant(ms, pc[p].ret[1])
  /\ pc' = At(p, AfterSave(pc[p].ret[1]))
  /\ UNCHANGED <<now, gen, done, w, req, form, calls, fault, getSecretCalled, spent>>

ConcRemoveAuthorize(p) ==
  /\ pc[p].at = "RemoveAuthorizeData"
  /\ ms' = RemoveAuthorizeData(ms, pc[p].ret[1].AuthorizeData[1].Code)
  /\ pc' = At(p, AfterAuthorize(pc[p].ret[1]))
  /\ UNCHANGED <<now, gen, done, w, req, form, calls, fault, getSecretCalled, spent>>

ConcRemoveRefresh(p) ==
  /\ pc[p].at = "RemoveRefreshGrant"
  /\ ms' = RemoveRefreshGrant(ms, pc[p].ret[1].AccessGrant[1].RefreshToken)
  /\ pc' = At(p, AfterRefresh(pc[p].ret[1]))
  /\ UNCHANGED <<now, gen, done, w, req, form, calls, fault, getSecretCalled, spent>>

ConcRemoveAccess(p) ==
  /\ pc[p].at = "RemoveAccessGrant"
  /\ ms' = RemoveAccessGrant(ms, pc[p].ret[1].AccessGrant[1].AccessToken)
  /\ pc' = At(p, "output")
  /\ UNCHANGED <<now, gen, done, w, req, form, calls, fault, getSecretCalled, spent>>

\* the output of FinishAccessRequest
ConcOutput(p) ==
  /\ pc[p].at = "output"
  /\ LET ret == pc[p].ret[1]
         o1 == Put(Put(Put(w[p].Output, "access_token", ret.AccessToken),
                       "token_type", TokenType), "expires_in", ret.ExpiresIn)
         o2 == IF ret.RefreshToken # "" THEN Put(o1, "refresh_token", ret.RefreshToken)
                                        ELSE o1
         o3 == IF req[p][1].Scope # <<>> THEN Put(o2, "scope", req[p][1].Scope) ELSE o2
     IN  /\ w' = [w EXCEPT ![p].Output = o3]
         /\ spent' = spent \cup {[grant |-> req[p][1].GrantType, token |-> req[p][1].Code,
                                   issued |-> ret.AccessToken]}
  /\ pc' = At(p, "done")
  /\ UNCHANGED <<ms, now, gen, done, req, form, calls, fault, getSecretCalled>>

\* the goroutine ends, another request is given one
ConcNewRequest(p) ==
  /\ pc[p].at = "done"
  /\ pc' = [pc EXCEPT ![p] = [at |-> "idle", ret |-> Nil]]
  /\ w' = [w EXCEPT ![p] = NewResponse]
  /\ req' = [req EXCEPT ![p] = Nil]
  /\ form' = [form EXCEPT ![p] = Request]
  /\ UNCHANGED <<ms, now, gen, done, calls, fault, getSecretCalled, spent>>

ConcNext ==
  \E p \in Procs :
    \/ ConcHandle(p)
    \/ ConcGenerate(p)
    \/ ConcSave(p)
    \/ ConcRemoveAuthorize(p)
    \/ ConcRemoveRefresh(p)
    \/ ConcRemoveAccess(p)
    \/ ConcOutput(p)
    \/ ConcNewRequest(p)

ConcSpec == ConcInit /\ [][ConcNext]_vars

(***************************************************************************)
(* The lock of MemStorage.  MemStorage embeds a sync.RWMutex: in this      *)
(* specification ms has the field RWMutex beside the four maps, with the   *)
(* number of read locks held (readers), the goroutine that has called Lock *)
(* and not yet Unlock (pending, 0 when none) and the goroutines waiting in *)
(* RLock (blocked).  Lock first excludes the other writers and announces   *)
(* itself, then waits for the read locks held to be released; an RLock     *)
(* that finds a writer announced waits for its Unlock, which hands the     *)
(* read lock to every waiting reader.  pc[p] is [at, op, arg, n]: the      *)
(* lock operation the method called by goroutine p does next, the method   *)
(* and its argument, and the number of methods p has called; w[p] is what  *)
(* the last Load or GetClient of p returned.                               *)
(***************************************************************************)

\* the most methods one goroutine calls
MaxOps == 2

ReadOps == {"GetClient", "LoadAuthorizeData", "LoadAccessGrant", "LoadRefreshGrant"}

LockOps ==
  {[op |-> "GetClient", arg |-> "1234"],
   [op |-> "LoadAuthorizeData", arg |-> "9999"],
   [op |-> "LoadAccessGrant", arg |-> "9999"],
   [op |-> "LoadRefreshGrant", arg |-> "r9999"],
   [op |-> "LoadRefreshGrant", arg |-> "r1"],
   [op |-> "SetClient", arg |-> "1234"],
   [op |-> "SaveAuthorizeData", arg |-> "9999"],
   [op |-> "RemoveAuthorizeData", arg |-> "9999"],
   [op |-> "SaveAccessGrant", arg |-> "1"],
   [op |-> "RemoveAccessGrant", arg |-> "9999"],
   [op |-> "RemoveRefreshGrant", arg |-> "r9999"]}

NoResult == [val |-> Nil, err |-> ""]

IdleCaller(n) == [at |-> "idle", op |-> "", arg |-> "", n |-> n]

\* the body of a method that takes the write lock
Write(st, o) ==
  CASE o.op = "SetClient" -> SetClient(st, o.arg, Client1)
    [] o.op = "SaveAuthorizeData" ->
         SaveAuthorizeData(st, [AuthorizeData EXCEPT !.Client = Some(Client1),
                                                     !.Code = o.arg, !.RedirectURI = U_A])
    [] o.op = "RemoveAuthorizeData" -> RemoveAuthorizeData(st, o.arg)
    [] o.op = "SaveAccessGrant" ->
         SaveAccessGrant(st, [AccessGrant EXCEPT !.Client = Some(Client1),
                                                 !.AccessToken = o.arg,
                                                 !.RefreshToken = "r" \o o.arg])
    [] o.op = "RemoveAccessGrant" -> RemoveAccessGrant(st, o.arg)
    [] OTHER -> RemoveRefreshGrant(st, o.arg)

\* where goroutine q is, and what it has read, once its RLock has returned:
\* the body of the method up to its next lock operation
Acquired(st, c) ==
  IF c.at = "RLock2"
    THEN [pc |-> [c EXCEPT !.at = "RUnlock2"],
          w |-> LoadAccessGrant(st, st.RefreshGrants[c.arg])]
    ELSE CASE c.op = "GetClient" ->
                [pc |-> [c EXCEPT !.at = "RUnlock"], w |-> GetClient(st, c.arg)]
           [] c.op = "LoadAuthorizeData" ->
                [pc |-> [c EXCEPT !.at = "RUnlock"], w |-> LoadAuthorizeData(st, c.arg)]
           [] c.op = "LoadAccessGrant" ->
                [pc |-> [c EXCEPT !.at = "RUnlock"], w |-> LoadAccessGrant(st, c.arg)]
           [] OTHER ->
                IF c.arg \in DOMAIN st.RefreshGrants
                  THEN [pc |-> [c EXCEPT !.at = "RLock2"], w |-> NoResult]
                  ELSE [pc |-> [c EXCEPT !.at = "RUnlock"],
                        w |-> [val |-> Nil, err |-> "Refresh not found"]]

LockStorage ==
  [f \in DOMAIN TestStorage \cup {"RWMutex"} |->
     IF f = "RWMutex" THEN [readers |-> 0, pending |-> 0, blocked |-> {}]
                      ELSE TestStorage[f]]

LockInit ==
  /\ ms = LockStorage
  /\ now = 0
  /\ gen = [counter |-> 0, acounter |-> 0, rcounter |-> 0]
  /\ pc = [p \in Procs |-> IdleCaller(0)]
  /\ done = FALSE
  /\ w = [p \in Procs |-> NoResult]
  /\ req = Nil
  /\ form = Request
  /\ calls = <<>>
  /\ fault = "none"
  /\ getSecretCalled = FALSE
  /\ spent = {}

\* goroutine p calls a method of the store
Call(p) ==
  /\ pc[p].at = "idle"
  /\ pc[p].n < MaxOps
  /\ \E o \in LockOps :
       pc' = [pc EXCEPT ![p] = [at |-> IF o.op \in ReadOps THEN "RLock" ELSE "Lock",
                                op |-> o.op, arg |-> o.arg, n |-> pc[p].n + 1]]
  /\ w' = [w EXCEPT ![p] = NoResult]
  /\ UNCHANGED <<ms, now, gen, done, req, form, calls, fault, getSecretCalled, spent>>

\* ms.RLock() of a Load method or GetClient, and of the LoadAccessGrant that
\* LoadRefreshGrant calls with the read lock held
RLock(p) ==
  /\ pc[p].at \in {"RLock", "RLock2"}
  /\ p \notin ms.RWMutex.blocked
  /\ IF ms.RWMutex.pending # 0
       THEN /\ ms' = [ms EXCEPT !.RWMutex.blocked = @ \cup {p}]
            /\ UNCHANGED <<pc, w>>
       ELSE /\ ms' = [ms EXCEPT !.RWMutex.readers = @ + 1]
            /\ pc' = [pc EXCEPT ![p] = Acquired(ms, pc[p]).pc]
            /\ w' = [w EXCEPT ![p] = Acquired(ms, pc[p]).w]
  /\ UNCHANGED <<now, gen, done, req, form, calls, fault, getSecretCalled, spent>>

\* the deferred ms.RUnlock(), and the return of the method
RUnlock(p) ==
  /\ pc[p].at \in {"RUnlock", "RUnlock2"}
  /\ ms' = [ms EXCEPT !.RWMutex.readers = @ - 1]
  /\ pc' = [pc EXCEPT ![p] = IF pc[p].at = "RUnlock2" THEN [@ EXCEPT !.at = "RUnlock"]
                                                        ELSE IdleCaller(@.n)]
  /\ UNCHANGED <<now, gen, done, w, req, form, calls, fault, getSecretCalled, spent>>

\* ms.Lock(): the writer excludes the other writers and announces itself
Lock(p) ==
  /\ pc[p].at = "Lock"
  /\ ms.RWMutex.pending = 0
  /\ ms' = [ms EXCEPT !.RWMutex.pending = p]
  /\ pc' = [pc EXCEPT ![p].at = "LockWait"]
  /\ UNCHANGED <<now, gen, done, w, req, form, calls, fault, getSecretCalled, spent>>

\* ms.Lock() returns when no read lock is held; the body of the method
LockAcquired(p) ==
  /\ pc[p].at = "LockWait"
  /\ ms.RWMutex.readers = 0
  /\ ms' = Write(ms, pc[p])
  /\ pc' = [pc EXCEPT ![p].at = "Unlock"]
  /\ UNCHANGED <<now, gen, done, w, req, form, calls, fault, getSecretCalled, spent>>

\* ms.Unlock(), and the return of the method: the waiting readers get the
\* read lock
Unlock(p) ==
  /\ pc[p].at = "Unlock"
  /\ ms' = [ms EXCEPT !.RWMutex = [readers |-> Cardinality(@.blocked), pending |-> 0,
                                    blocked |-> {}]]
  /\ pc' = [q \in Procs |->
              IF q = p THEN IdleCaller(pc[p].n)
              ELSE IF q \in ms.RWMutex.blocked THEN Acquired(ms, pc[q]).pc
              ELSE pc[q]]
  /\ w' = [q \in Procs |->
             IF q \in ms.RWMutex.blocked THEN Acquired(ms, pc[q]).w ELSE w[q]]
  /\ UNCHANGED <<now, gen, done, req, form, calls, fault, getSecretCalled, spent>>

\* the steps of a method that has been called
Proceed(p) ==
  \/ RLock(p)
  \/ RUnlock(p)
  \/ Lock(p)
  \/ LockAcquired(p)
  \/ Unlock(p)

LockNext == \E p \in Procs : Call(p) \/ Proceed(p)

LockSpec == LockInit /\ [][LockNext]_vars

\* a goroutine that can take a step takes one
LockFairSpec == LockSpec /\ \A p \in Procs : WF_vars(Proceed(p))

(***************************************************************************)
(* The properties.                                                         *)
(***************************************************************************)
IsRemove(c) == c \in {"RemoveAuthorizeData", "RemoveRefreshGrant", "RemoveAccessGrant"}

\* C1: whenever a Finish has invoked one of RemoveAuthorizeData,
\* RemoveRefreshGrant and RemoveAccessGrant, it has invoked SaveAccessGrant
\* before; and when the token generator or SaveAccessGrant failed in
\* FinishAccessRequest, no remove was invoked, the authorization data or the
\* previous grant the request consumes is still what storage loads for the
\* presented code or refresh token, and handling the same request again
\* yields the same request object.
C1_SaveBeforeRemove ==
  /\ \A i \in 1..Len(calls) :
       IsRemove(calls[i]) => \E j \in 1..(i - 1) : calls[j] = "SaveAccessGrant"
  /\ (done /\ fault \in {"GenerateAccessToken", "SaveAccessGrant"}) =>
       /\ \A i \in 1..Len(calls) : ~IsRemove(calls[i])
       /\ (pc = "token" /\ req # Nil) =>
            /\ req[1].AuthorizeData # Nil =>
                 LoadAuthorizeData(ms, req[1].Code).val = req[1].AuthorizeData
            /\ req[1].AccessGrant # Nil =>
                 LoadRefreshGrant(ms, req[1].Code).val = req[1].AccessGrant
            /\ HandleAccess(NewResponse, form, ms, now).ret = req

\* C1 witness: SaveAccessGrant failed in the Finish of an authorization code
\* request
C1_Witness ==
  /\ pc = "token" /\ done /\ req # Nil
  /\ req[1].GrantType = AuthorizationCodeGrant
  /\ fault = "SaveAccessGrant"
  /\ calls = <<"GenerateAccessToken", "SaveAccessGrant">>

\* C2: a Finish step (of the authorization, token or info endpoint) taken
\* when the response is in error state leaves the response (ResponseType,
\* URL, Output, ErrorType, RedirectInFragment and the rest), the storage
\* and the generators as they were and invokes no generator or storage
\* operation, for every value of Authorized (and ForceAccessGrant) the host
\* has set.  The Finish steps are those that keep pc and end with done.
C2_FinishNoOp ==
  [][(w.IsError /\ pc \in {"authorize", "token", "info"} /\ pc' = pc /\ done')
       => (w' = w /\ ms' = ms /\ gen' = gen /\ calls' = <<>>)]_vars

\* C2 witness: the Finish of the token endpoint has run on a response that
\* Handle left in error state
C2_Witness ==
  /\ pc = "token" /\ done /\ req = Nil
  /\ w.IsError /\ w.ErrorType = "invalid_grant"

\* the client authentication of the token request r succeeds against the
\* store st
Authenticates(r, st) ==
  LET a == getClientAuth(NewResponse, r, AllowClientSecretInParams)
  IN  a.auth # Nil /\ getClient(a.auth[1], st, NewResponse).client # Nil

\* C3: once a token request with grant_type=authorization_code has been
\* handled and finished with success, its code is not in storage, and every
\* token request that presents this code is rejected and yields no request
\* object to issue a grant from; the error is invalid_grant whenever the
\* client of the request authenticates.
C3_CodeOneTime ==
  (pc = "token" /\ done /\ ~w.IsError /\ req # Nil
     /\ req[1].GrantType = AuthorizationCodeGrant) =>
    /\ LoadAuthorizeData(ms, req[1].Code).val = Nil
    /\ \A r \in AuthorizationCodeRequests :
         r.code = req[1].Code =>
           LET res == HandleAccess(NewResponse, r, ms, now)
           IN  /\ res.ret = Nil
               /\ res.w.IsError
               /\ Authenticates(r, ms) => res.w.ErrorType = "invalid_grant"

\* the refresh tokens of the refresh requests finished with success and a
\* newly generated grant
SpentRefreshTokens == {s.token : s \in {x \in spent : x.grant = RefreshTokenGrant}}

\* C4: when a refresh request has been handled and finished with success
\* and newly generated tokens, the refresh-index entry and the access-grant
\* entry of the previous grant are not in storage, storage loads the new
\* grant by the new access token and by the new refresh token; and from then
\* on the old refresh token is not in the refresh index and every refresh
\* request that presents it is rejected.
C4_RefreshRotates ==
  /\ (pc = "token" /\ done /\ ~w.IsError /\ req # Nil
        /\ req[1].GrantType = RefreshTokenGrant
        /\ calls # <<>> /\ calls[1] = "GenerateAccessToken") =>
       LET prev == req[1].AccessGrant[1]
           new == LoadAccessGrant(ms, w.Output["access_token"])
       IN  /\ req[1].Code \notin DOMAIN ms.RefreshGrants
           /\ prev.RefreshToken \notin DOMAIN ms.RefreshGrants
           /\ prev.AccessToken \notin DOMAIN ms.AccessGrants
           /\ new.val # Nil
           /\ new.val[1].AccessToken = w.Output["access_token"]
           /\ new.val[1].AccessGrant = Some(prev)
           /\ "refresh_token" \in DOMAIN w.Output
           /\ LoadRefreshGrant(ms, w.Output["refresh_token"]) = new
           /\ req[1].Code \in SpentRefreshTokens
  /\ \A t \in SpentRefreshTokens :
       /\ t \notin DOMAIN ms.RefreshGrants
       /\ \A r \in RefreshTokenRequests :
            r.refresh_token = t =>
              LET res == HandleAccess(NewResponse, r, ms, now)
              IN  res.ret = Nil /\ res.w.IsError
       /\ (pc = "token" /\ ~done /\ form.grant_type = RefreshTokenGrant
             /\ form.refresh_token = t)
            => (req = Nil /\ w.IsError)

\* C4 witness: after the refresh of r9999 has issued r1, a request that
\* presents r9999 with the credentials of its client is rejected
C4_Witness ==
  /\ "r9999" \in SpentRefreshTokens
  /\ "r1" \in DOMAIN ms.RefreshGrants
  /\ pc = "token" /\ req = Nil
  /\ form.grant_type = RefreshTokenGrant /\ form.refresh_token = "r9999"
  /\ Authenticates(form, ms)
  /\ w.ErrorType = "invalid_grant"

\* the credentials the token request r presents: what getClientAuth
\* extracts from it (a pointer)
Presented(r) == getClientAuth(NewResponse, r, AllowClientSecretInParams).auth

\* the secret pw is the one of the client c: by ClientSecretMatches when c
\* implements it, by equality with GetSecret otherwise
SecretOf(c, pw) == IF c.matcher THEN ClientSecretMatches(c, pw) ELSE c.Secret = pw

\* the token request r has the method, the grant type and the parameters
\* its grant type requires, so that its handler comes to authenticate the
\* client
WellFormed(r) ==
  /\ r.Method = "POST" /\ r.ParseErr = ""
  /\ CASE r.grant_type = AuthorizationCodeGrant -> r.code # ""
       [] r.grant_type = RefreshTokenGrant -> r.refresh_token # ""
       [] r.grant_type = PasswordGrant -> r.username # "" /\ r.password # ""
       [] r.grant_type = ClientCredentialsGrant -> TRUE
       [] r.grant_type = AssertionGrant -> r.assertion_type # "" /\ r.assertion # ""
       [] OTHER -> FALSE

\* the Finish of the token endpoint has saved a grant
GrantSaved ==
  /\ pc = "token" /\ done
  /\ \E i \in 1..Len(calls) : calls[i] = "SaveAccessGrant"
  /\ fault # "SaveAccessGrant"

C5_Authenticated ==
  /\ GrantSaved =>
       /\ Presented(form) # Nil
       /\ Presented(form)[1].Username \in DOMAIN ms.Clients
       /\ LET c == ms.Clients[Presented(form)[1].Username]
          IN  /\ SecretOf(c, Presented(form)[1].Password)
              /\ c.RedirectURI # <<>>
              /\ req # Nil /\ req[1].Client = Some(c)
  /\ (pc = "token" /\ WellFormed(form) /\ Presented(form) # Nil
        /\ Presented(form)[1].Username \in DOMAIN ms.Clients) =>
       LET c == ms.Clients[Presented(form)[1].Username]
       IN  (~SecretOf(c, Presented(form)[1].Password) \/ c.RedirectURI = <<>>) =>
             (req = Nil /\ w.IsError /\ w.ErrorType = "unauthorized_client")

C6_MatcherNoGetSecret ==
  (pc = "token" /\ Presented(form) # Nil
     /\ Presented(form)[1].Username \in DOMAIN ms.Clients
     /\ ms.Clients[Presented(form)[1].Username].matcher) =>
    LET auth == Presented(form)[1]
        c == ms.Clients[auth.Username]
        g == getClient(auth, ms, NewResponse)
    IN  /\ ~getSecretCalled
        /\ ~g.getSecret
        /\ (ClientSecretMatches(c, auth.Password) /\ c.RedirectURI # <<>>) =>
             /\ g.client = Some(c) /\ ~g.w.IsError
             /\ (WellFormed(form) /\ ~done) => w.ErrorType # "unauthorized_client"
        /\ ~ClientSecretMatches(c, auth.Password) =>
             /\ g.client = Nil /\ g.w.ErrorType = "unauthorized_client"
             /\ req = Nil

\* C6 witness: client 1234, which implements ClientSecretMatches, has
\* presented a wrong secret and has been refused
C6_Witness ==
  /\ pc = "token" /\ ~done /\ req = Nil
  /\ WellFormed(form)
  /\ Presented(form) = Some(BasicAuth("1234", "wrong"))
  /\ ms.Clients["1234"].matcher
  /\ ~getSecretCalled
  /\ w.ErrorType = "unauthorized_client"

\* the token request being served presents a code that is in storage and
\* belongs to another client than the one that has authenticated
CodeOfOtherClient ==
  /\ pc = "token"
  /\ form.grant_type = AuthorizationCodeGrant
  /\ WellFormed(form)
  /\ Authenticates(form, ms)
  /\ form.code \in DOMAIN ms.AuthorizeData
  /\ ms.AuthorizeData[form.code].Client # Nil
  /\ ms.AuthorizeData[form.code].Client[1].ID # Presented(form)[1].Username

C7_State ==
  /\ CodeOfOtherClient =>
       (req = Nil /\ w.IsError /\ w.ErrorType = "invalid_grant")
  /\ \A t \in DOMAIN ms.AccessGrants :
       LET g == ms.AccessGrants[t]
       IN  g.AuthorizeData # Nil =>
             /\ g.Client # Nil /\ g.AuthorizeData[1].Client # Nil
             /\ g.AuthorizeData[1].Client[1].ID = g.Client[1].ID

\* C7: a token request that presents a stored code of another client than
\* the authenticated one is rejected with invalid_grant and yields no
\* request object; while it is served no step changes the stored
\* authorization data of that code; and every access grant in storage that
\* carries authorization data carries that of its own client.
C7_CodeBoundToClient ==
  /\ []C7_State
  /\ [][CodeOfOtherClient =>
          (/\ form.code \in DOMAIN ms'.AuthorizeData
           /\ ms'.AuthorizeData[form.code] = ms.AuthorizeData[form.code]
           /\ ms'.AccessGrants = ms.AccessGrants)]_vars

\* C7 witness: client 5678 has authenticated and presented the unexpired
\* code 9999 of client 1234; the request was rejected, Finish was called,
\* and the code is in storage
C7_Witness ==
  /\ CodeOfOtherClient /\ done
  /\ form.code = "9999"
  /\ Presented(form)[1].Username = "5678"
  /\ ~IsExpiredAt(ms.AuthorizeData["9999"], now)
  /\ w.ErrorType = "invalid_grant"

\* the redirect URI the token request r of the client c resolves to: the
\* form value if present, else the first registered URI
Resolved(r, c) ==
  IF r.redirect_uri # <<>> THEN r.redirect_uri
  ELSE firstURI(c.RedirectURI, RedirectURISeparator)

\* C8: an authorization code request yields a request object (and so can
\* be exchanged) only when its resolved redirect URI validates against the
\* registered list of its client and equals the redirect URI stored with
\* the code; and an authenticated request of the code's client for an
\* unexpired stored code whose redirect URI validates against the
\* registered list without being the first registered URI is rejected with
\* invalid_request when it omits redirect_uri.
C8_RedirectExact ==
  /\ (pc = "token" /\ form.grant_type = AuthorizationCodeGrant /\ req # Nil) =>
       LET c == req[1].Client[1]
           uri == Resolved(form, c)
       IN  /\ validateURIList(c.RedirectURI, uri, RedirectURISeparator) = "ok"
           /\ req[1].AuthorizeData # Nil
           /\ req[1].AuthorizeData[1].Code = form.code
           /\ req[1].AuthorizeData[1].RedirectURI = uri
           /\ req[1].RedirectURI = uri
           /\ ~done => LoadAuthorizeData(ms, form.code).val = req[1].AuthorizeData
  /\ (pc = "token" /\ form.grant_type = AuthorizationCodeGrant
        /\ WellFormed(form) /\ Authenticates(form, ms)
        /\ form.code \in DOMAIN ms.AuthorizeData
        /\ form.redirect_uri = <<>>) =>
       LET ad == ms.AuthorizeData[form.code]
           c == ms.Clients[Presented(form)[1].Username]
       IN  (/\ ad.Client = Some(c)
            /\ ~IsExpiredAt(ad, now)
            /\ validateURIList(c.RedirectURI, ad.RedirectURI, RedirectURISeparator) = "ok"
            /\ ad.RedirectURI # firstURI(c.RedirectURI, RedirectURISeparator))
           => (req = Nil /\ w.IsError /\ w.ErrorType = "invalid_request")

\* C8 witness: client 1234, registered with http://h/a, presents without
\* redirect_uri the unexpired code 1 issued to it for http://h/a/b and is
\* rejected
C8_Witness ==
  /\ pc = "token" /\ ~done /\ req = Nil
  /\ form.grant_type = AuthorizationCodeGrant
  /\ form.code = "1" /\ form.redirect_uri = <<>>
  /\ Presented(form) = Some(BasicAuth("1234", "aabbccdd"))
  /\ "1" \in DOMAIN ms.AuthorizeData
  /\ ms.AuthorizeData["1"].RedirectURI = U_AB
  /\ ms.AuthorizeData["1"].Client = Some(Client1)
  /\ ~IsExpiredAt(ms.AuthorizeData["1"], now)
  /\ w.ErrorType = "invalid_request"
  /\ w.InternalError = "Redirect uri is different"

\* C9: a well-formed authorization code request of an authenticated client
\* for a stored code is rejected with invalid_grant when createdAt +
\* expiresIn < now, and is accepted when createdAt + expiresIn >= now (the
\* instant createdAt + expiresIn included) and the code is the client's and
\* its redirect URI the resolved one; an info request for a stored access
\* grant is rejected with invalid_grant when the grant's createdAt +
\* expiresIn < now and accepted otherwise.
C9_ExpiryStrict ==
  /\ (pc = "token" /\ ~done /\ form.grant_type = AuthorizationCodeGrant
        /\ WellFormed(form) /\ Authenticates(form, ms)
        /\ form.code \in DOMAIN ms.AuthorizeData) =>
       LET ad == ms.AuthorizeData[form.code]
           c == ms.Clients[Presented(form)[1].Username]
       IN  /\ ad.CreatedAt + ad.ExpiresIn < now =>
                (req = Nil /\ w.IsError /\ w.ErrorType = "invalid_grant")
           /\ (/\ ad.CreatedAt + ad.ExpiresIn >= now
               /\ ad.Client = Some(c)
               /\ ad.RedirectURI = Resolved(form, c)) =>
                (req # Nil /\ ~w.IsError /\ req[1].AuthorizeData = Some(ad))
  /\ (pc = "info" /\ ~done /\ form.ParseErr = ""
        /\ checkBearerAuth(form).auth # Nil
        /\ checkBearerAuth(form).auth[1].Code \in DOMAIN ms.AccessGrants) =>
       LET g == ms.AccessGrants[checkBearerAuth(form).auth[1].Code]
       IN  /\ g.CreatedAt + g.ExpiresIn < now =>
                (req = Nil /\ w.IsError /\ w.ErrorType = "invalid_grant")
           /\ g.CreatedAt + g.ExpiresIn >= now =>
                (req # Nil /\ ~w.IsError /\ req[1].AccessGrant = Some(g))

\* C9 witness: a code with a lifetime of at least one second has been
\* presented at the instant createdAt + expiresIn and accepted
C9_Witness ==
  /\ pc = "token" /\ ~done /\ req # Nil
  /\ form.grant_type = AuthorizationCodeGrant
  /\ form.code \in DOMAIN ms.AuthorizeData
  /\ ms.AuthorizeData[form.code].ExpiresIn >= 1
  /\ now = ms.AuthorizeData[form.code].CreatedAt + ms.AuthorizeData[form.code].ExpiresIn

\* the non-empty comma-separated elements of a scope string, as the maximal
\* comma-free substrings
Elements(s) ==
  {SubSeq(s, p[1], p[2]) :
     p \in {q \in (1..Len(s)) \X (1..Len(s)) :
              /\ q[1] <= q[2]
              /\ \A k \in q[1]..q[2] : s[k] # ","
              /\ (q[1] = 1 \/ s[q[1] - 1] = ",")
              /\ (q[2] = Len(s) \/ s[q[2] + 1] = ",")}}

\* C10: a refresh request is rejected with access_denied only if its scope
\* has a non-empty comma-separated element that is not an element of the
\* previous grant's scope, and, when the authenticated client presents its
\* own refresh token, if and only if so; otherwise that request is accepted
\* with the requested scope, or with the previous grant's scope when the
\* request omits the scope.
C10_RefreshScope ==
  (pc = "token" /\ ~done /\ form.grant_type = RefreshTokenGrant
     /\ form.refresh_token \in DOMAIN ms.RefreshGrants
     /\ ms.RefreshGrants[form.refresh_token] \in DOMAIN ms.AccessGrants) =>
    LET prev == ms.AccessGrants[ms.RefreshGrants[form.refresh_token]]
        extra == \E e \in Elements(form.scope) : e \notin Elements(prev.Scope)
        denied == w.IsError /\ w.ErrorType = "access_denied"
    IN  /\ denied => extra
        /\ (Authenticates(form, ms)
              /\ prev.Client[1].ID = Presented(form)[1].Username) =>
             /\ denied <=> extra
             /\ ~extra =>
                  /\ req # Nil /\ ~w.IsError
                  /\ req[1].Scope = IF form.scope = <<>> THEN prev.Scope
                                                        ELSE form.scope

\* C10 witness: a refresh request naming several scope elements has been
\* rejected with access_denied
C10_Witness ==
  /\ pc = "token" /\ form.grant_type = RefreshTokenGrant
  /\ w.IsError /\ w.ErrorType = "access_denied"
  /\ Cardinality(Elements(form.scope)) >= 2

\* the grant g and the grants it descends from by refresh, newest first
RECURSIVE Ancestry(_)
Ancestry(g) == IF g.AccessGrant = Nil THEN <<g>> ELSE <<g>> \o Ancestry(g.AccessGrant[1])

\* C11: every stored grant that was issued by a refresh has a scope whose
\* elements are elements of the scope of the grant it refreshed, and so of
\* every grant before that one in its chain, the original grant included.
C11_ScopeNeverWidens ==
  \A t \in DOMAIN ms.AccessGrants :
    LET chain == Ancestry(ms.AccessGrants[t])
    IN  \A i \in 1..Len(chain) : \A j \in i..Len(chain) :
          Elements(chain[i].Scope) \subseteq Elements(chain[j].Scope)

\* C11 witness: the second refresh of a chain has issued a grant whose scope
\* has other elements than the original grant's and the elements of the
\* grant it refreshed
C11_Witness ==
  /\ pc = "token" /\ done /\ ~w.IsError
  /\ \E t \in DOMAIN ms.AccessGrants :
       LET chain == Ancestry(ms.AccessGrants[t])
       IN  /\ Len(chain) = 4
           /\ Elements(chain[1].Scope) = Elements(chain[2].Scope)
           /\ Elements(chain[2].Scope) # Elements(chain[3].Scope)
           /\ Elements(chain[1].Scope) # {}

\* the refresh request served is one of an authenticated client for a
\* stored refresh token of a grant of another client
RefreshOfOtherClient ==
  /\ pc = "token" /\ form.grant_type = RefreshTokenGrant
  /\ WellFormed(form) /\ Authenticates(form, ms)
  /\ form.refresh_token \in DOMAIN ms.RefreshGrants
  /\ ms.RefreshGrants[form.refresh_token] \in DOMAIN ms.AccessGrants
  /\ LET prev == ms.AccessGrants[ms.RefreshGrants[form.refresh_token]]
     IN  /\ prev.Client # Nil /\ prev.Client[1].RedirectURI # <<>>
         /\ prev.Client[1].ID # Presented(form)[1].Username

C12_State ==
  RefreshOfOtherClient =>
    /\ req = Nil /\ w.IsError /\ w.ErrorType = "invalid_client"
    /\ \A r \in RefreshTokenRequests :
         (/\ r.refresh_token = form.refresh_token /\ r.scope = <<>>
          /\ Authenticates(r, ms)
          /\ Presented(r)[1].Username
               = ms.AccessGrants[ms.RefreshGrants[form.refresh_token]].Client[1].ID)
           => LET res == HandleAccess(NewResponse, r, ms, now)
              IN  res.ret # Nil /\ ~res.w.IsError

\* C12: a refresh request of an authenticated client for the refresh token
\* of another client's grant is rejected with invalid_client, before and
\* after Finish; no step taken while it is served changes storage, and the
\* same refresh token presented by the client of the grant is accepted.
C12_OtherClientRefresh ==
  /\ []C12_State
  /\ [][RefreshOfOtherClient => ms' = ms]_vars

\* C12 witness: client 5678 has presented the refresh token of client 1234
\* and the request has been finished
C12_Witness ==
  /\ RefreshOfOtherClient /\ done
  /\ Presented(form)[1].Username = "5678"
  /\ form.refresh_token = "r9999"
  /\ w.ErrorType = "invalid_client"

\* a well-formed token request of an authenticated client is being served
ServedAuthenticated(grant) ==
  /\ pc = "token" /\ ~done /\ form.grant_type = grant
  /\ WellFormed(form) /\ Authenticates(form, ms)

\* the refresh token t is in the refresh index and its grant is stored
RefreshFound(t) ==
  /\ t \in DOMAIN ms.RefreshGrants
  /\ ms.RefreshGrants[t] \in DOMAIN ms.AccessGrants

InvalidGrant == req = Nil /\ w.IsError /\ w.ErrorType = "invalid_grant"

\* an authorization code that is not in storage or has createdAt +
\* expiresIn < now is rejected with invalid_grant
CodeUnknownOrExpired ==
  ServedAuthenticated(AuthorizationCodeGrant) =>
    ((\/ form.code \notin DOMAIN ms.AuthorizeData
      \/ ms.AuthorizeData[form.code].CreatedAt
           + ms.AuthorizeData[form.code].ExpiresIn < now) => InvalidGrant)

\* C13 as stated: a token request whose authorization code or refresh token
\* is not found in storage or has expired is rejected with invalid_grant,
\* a refresh token whose grant has createdAt + expiresIn < now included.
C13_UnknownOrExpired ==
  /\ CodeUnknownOrExpired
  /\ ServedAuthenticated(RefreshTokenGrant) =>
       ((\/ ~RefreshFound(form.refresh_token)
         \/ LET g == ms.AccessGrants[ms.RefreshGrants[form.refresh_token]]
            IN  g.CreatedAt + g.ExpiresIn < now) => InvalidGrant)

\* C13 amended: a token request whose authorization code is not found or has
\* expired, or whose refresh token is not found, is rejected with
\* invalid_grant; the age of the grant plays no part for a refresh token: one
\* whose grant has createdAt + expiresIn < now, presented by the client of
\* the grant without a scope, is accepted.
C13_UnknownOrExpiredCode ==
  /\ CodeUnknownOrExpired
  /\ ServedAuthenticated(RefreshTokenGrant) =>
       /\ ~RefreshFound(form.refresh_token) => InvalidGrant
       /\ RefreshFound(form.refresh_token) =>
            LET g == ms.AccessGrants[ms.RefreshGrants[form.refresh_token]]
            IN  (/\ g.CreatedAt + g.ExpiresIn < now
                 /\ g.Client # Nil /\ g.Client[1].RedirectURI # <<>>
                 /\ g.Client[1].ID = Presented(form)[1].Username
                 /\ form.scope = <<>>)
                  => (req # Nil /\ ~w.IsError /\ req[1].AccessGrant = Some(g))

\* C13 witness: the refresh token of a grant that has expired has been
\* presented by its client and accepted
C13_Witness ==
  /\ ServedAuthenticated(RefreshTokenGrant) /\ RefreshFound(form.refresh_token)
  /\ LET g == ms.AccessGrants[ms.RefreshGrants[form.refresh_token]]
     IN  g.CreatedAt + g.ExpiresIn < now /\ g.ExpiresIn >= 1
  /\ req # Nil /\ ~w.IsError

\* the redirect URI the authorization endpoint works with for the request r:
\* the unescaped parameter, or the registered URI when the parameter is
\* empty and the client has registered one URI only
AuthorizeURI(r) ==
  LET registered == ms.Clients[r.client_id].RedirectURI
      u == QueryUnescape(r.redirect_uri).val
  IN  IF u = <<>> /\ firstURI(registered, RedirectURISeparator) = registered
        THEN registered ELSE u

\* the authorization request r passes the form parsing, the unescaping, the
\* client lookup, the check of the registered URI and the URI validation
URIValidated(r) ==
  /\ r.ParseErr = ""
  /\ QueryUnescape(r.redirect_uri).err = ""
  /\ r.client_id \in DOMAIN ms.Clients
  /\ ms.Clients[r.client_id].RedirectURI # <<>>
  /\ validateURIList(ms.Clients[r.client_id].RedirectURI, AuthorizeURI(r),
                     RedirectURISeparator) = "ok"

\* C14: an error response of the authorization endpoint is in data mode,
\* without a URL, when the request did not pass the validation of the
\* redirect URI; when it did, the error is unsupported_response_type,
\* access_denied or server_error and the response is in redirect mode with
\* the validated redirect URI as its URL.
C14_ErrorMode ==
  (pc = "authorize" /\ w.IsError) =>
    IF URIValidated(form)
      THEN /\ w.ResponseType = "REDIRECT"
           /\ w.URL = AuthorizeURI(form)
           /\ w.ErrorType \in {"unsupported_response_type", "access_denied", "server_error"}
           /\ w.ErrorType = "unsupported_response_type" <=> req = Nil
      ELSE /\ w.ResponseType = "DATA"
           /\ w.URL = <<>>
           /\ req = Nil

\* C14 witness: Finish of the authorization endpoint has ended with
\* server_error in redirect mode
C14_Witness ==
  /\ pc = "authorize" /\ done /\ req # Nil
  /\ w.IsError /\ w.ErrorType = "server_error"
  /\ w.ResponseType = "REDIRECT" /\ w.URL # <<>>

\* the outcome res of a Finish is access_denied with no generator or
\* storage call, the storage and the generators being as before
DeniedOnly(res) ==
  /\ res.w.IsError /\ res.w.ErrorType = "access_denied"
  /\ res.calls = <<>>
  /\ res.storage = ms
  /\ res.gen = gen

\* Finish of an accepted request that the host leaves unauthorized has the
\* outcome DeniedOnly, whatever else the host sets and whatever would fail
C15_Denied ==
  /\ (pc = "token" /\ ~done /\ req # Nil /\ ~w.IsError) =>
       \A force \in ForceChoices, f \in AccessFaults :
         DeniedOnly(FinishAccess(w, form.redirect_uri,
                                 [req[1] EXCEPT !.Authorized = FALSE,
                                                !.ForceAccessGrant = force],
                                 ms, now, gen, f))
  /\ (pc = "authorize" /\ ~done /\ req # Nil /\ ~w.IsError) =>
       \A f \in Faults :
         DeniedOnly(FinishAuthorize(w, form.redirect_uri,
                                    [req[1] EXCEPT !.Authorized = FALSE],
                                    ms, now, gen, f))

\* C15: when the host leaves Authorized false, Finish of the authorization
\* endpoint and of the token endpoint sets access_denied and calls neither a
\* generator nor the storage; and every step that ends a request accepted by
\* Handle with access_denied leaves storage and generators as they were,
\* with no call made, so that no authorization data or grant is created and
\* the presented code or refresh token stays in storage.
C15_UnauthorizedFinish ==
  /\ []C15_Denied
  /\ [][(pc \in {"token", "authorize"} /\ ~w.IsError
           /\ w'.IsError /\ w'.ErrorType = "access_denied")
          => (pc' = pc /\ done' /\ ms' = ms /\ gen' = gen /\ calls' = <<>>)]_vars

\* C15 witness: the exchange of a stored code has been finished unauthorized
\* and the code is still in storage
C15_Witness ==
  /\ pc = "token" /\ done /\ req # Nil
  /\ w.IsError /\ w.ErrorType = "access_denied"
  /\ form.grant_type = AuthorizationCodeGrant
  /\ form.code \in DOMAIN ms.AuthorizeData

\* the last step was the Finish of an accepted response_type=code request
\* that the host authorized: it has called the code generator
CodeFinished ==
  /\ pc = "authorize" /\ done /\ req # Nil /\ req[1].Type = "code"
  /\ calls # <<>>

\* C16: after Finish of an authorized response_type=code request, either
\* the code generator and SaveAuthorizeData were called and did not fail,
\* the response is a non-error redirect to the resolved URI, not in the
\* fragment, whose output holds the code and the state, and storage loads
\* under that code the data with the request's client, resolved redirect
\* URI, scope and state, created now and expiring after
\* AuthorizationExpiration; or the generator or the save failed and the
\* response is server_error without a code, the code of a failed save not
\* being in storage.
C16_CodeIssued ==
  CodeFinished =>
    IF fault = "none"
      THEN /\ calls = <<"GenerateAuthorizeToken", "SaveAuthorizeData">>
           /\ ~w.IsError
           /\ w.ResponseType = "REDIRECT" /\ w.URL = AuthorizeURI(form)
           /\ ~w.RedirectInFragment
           /\ DOMAIN w.Output = {"code", "state"}
           /\ w.Output["state"] = form.state
           /\ LoadAuthorizeData(ms, w.Output["code"]) =
                [val |-> Some([Client |-> Some(ms.Clients[form.client_id]),
                               Code |-> w.Output["code"],
                               ExpiresIn |-> AuthorizationExpiration,
                               Scope |-> form.scope,
                               RedirectURI |-> AuthorizeURI(form),
                               State |-> form.state,
                               CreatedAt |-> now,
                               UserData |-> ""]),
                 err |-> ""]
      ELSE /\ fault \in {"GenerateAuthorizeToken", "SaveAuthorizeData"}
           /\ w.IsError /\ w.ErrorType = "server_error"
           /\ "code" \notin DOMAIN w.Output
           /\ fault = "SaveAuthorizeData" =>
                FormatInt(gen.counter) \notin DOMAIN ms.AuthorizeData

\* C16 witness: a code has been issued after the clock has advanced, with a
\* state and a scope in the request
C16_Witness ==
  /\ CodeFinished /\ ~w.IsError
  /\ now > 0 /\ form.state # "" /\ form.scope # <<>>
  /\ "code" \in DOMAIN w.Output
  /\ w.Output["code"] \in DOMAIN ms.AuthorizeData

\* the last step was the Finish of an accepted response_type=token request
\* that the host authorized: it has called the access token generator
TokenFinished ==
  /\ pc = "authorize" /\ done /\ req # Nil /\ req[1].Type = "token"
  /\ calls # <<>>

C17_State ==
  (TokenFinished /\ fault = "none") =>
    /\ ~w.IsError
    /\ w.ResponseType = "REDIRECT" /\ w.URL = AuthorizeURI(form)
    /\ w.RedirectInFragment
    /\ {"access_token", "token_type", "expires_in"} \subseteq DOMAIN w.Output
    /\ w.Output["token_type"] = TokenType
    /\ w.Output["expires_in"] = AccessExpiration
    /\ IF form.state # ""
         THEN "state" \in DOMAIN w.Output /\ w.Output["state"] = form.state
         ELSE "state" \notin DOMAIN w.Output
    /\ "refresh_token" \notin DOMAIN w.Output
    /\ "code" \notin DOMAIN w.Output
    /\ calls = <<"GenerateAccessToken", "SaveAccessGrant">>

\* C17: after Finish of an authorized response_type=token request whose
\* generator and save did not fail, the response is a non-error redirect to
\* the resolved URI with the output in the fragment, holding access_token,
\* token_type and expires_in = AccessExpiration, the state exactly when the
\* request has one, and no refresh_token; and no step taken while such a
\* request is served changes the stored authorization data.
C17_Implicit ==
  /\ []C17_State
  /\ [][(pc = "authorize" /\ req # Nil /\ req[1].Type = "token")
          => ms'.AuthorizeData = ms.AuthorizeData]_vars

\* C17 witness: an implicit request with a state has been finished with an
\* access token in the fragment
C17_Witness ==
  /\ TokenFinished /\ ~w.IsError /\ form.state # ""
  /\ "access_token" \in DOMAIN w.Output
  /\ w.Output["access_token"] \in DOMAIN ms.AccessGrants

\* the grant types whose grants come with a refresh token
RefreshingGrants == {AuthorizationCodeGrant, RefreshTokenGrant, PasswordGrant}

\* the last step was a Finish of the token endpoint that generated a token
\* and saved the grant
Generated ==
  /\ pc = "token" /\ done /\ req # Nil /\ ~w.IsError
  /\ calls # <<>> /\ calls[1] = "GenerateAccessToken"

\* the request served is one of the flows without refresh token
NoRefreshFlow ==
  \/ pc = "token" /\ req # Nil
       /\ req[1].GrantType \in {ClientCredentialsGrant, AssertionGrant}
  \/ pc = "authorize" /\ req # Nil /\ req[1].Type = "token"

C18_State ==
  /\ (pc = "token" /\ req # Nil) =>
       /\ req[1].GrantType \in RefreshingGrants
                              \cup {ClientCredentialsGrant, AssertionGrant}
       /\ req[1].GenerateRefresh <=> req[1].GrantType \in RefreshingGrants
  /\ Generated =>
       LET g == ms.AccessGrants[w.Output["access_token"]]
       IN  IF req[1].GrantType \in RefreshingGrants
             THEN /\ g.RefreshToken # ""
                  /\ "refresh_token" \in DOMAIN w.Output
                  /\ w.Output["refresh_token"] = g.RefreshToken
                  /\ g.RefreshToken \in DOMAIN ms.RefreshGrants
             ELSE /\ g.RefreshToken = ""
                  /\ "refresh_token" \notin DOMAIN w.Output
  /\ (TokenFinished /\ ~w.IsError) =>
       /\ ms.AccessGrants[w.Output["access_token"]].RefreshToken = ""
       /\ "refresh_token" \notin DOMAIN w.Output

\* C18: the token requests of the grant types authorization_code,
\* refresh_token and password ask for a refresh token and those of
\* client_credentials and assertion do not; a grant generated for
\* client_credentials, assertion or the implicit flow is saved with an empty
\* refresh token, adds nothing to the refresh index and has no refresh_token
\* in the output, while a grant generated for the other three has a refresh
\* token, in the output and in the refresh index.
C18_GenerateRefresh ==
  /\ []C18_State
  /\ [][(NoRefreshFlow /\ calls' # <<>> /\ calls'[1] = "GenerateAccessToken")
          => (ms'.RefreshGrants = ms.RefreshGrants /\ gen'.rcounter = gen.rcounter)]_vars

\* C18 witness: a client_credentials request has been finished with a newly
\* generated access token
C18_Witness ==
  /\ Generated /\ req[1].GrantType = ClientCredentialsGrant
  /\ w.Output["access_token"] \in DOMAIN ms.AccessGrants

\* C19: when the storage has returned an error to the Finish of the token
\* endpoint from the removal of the consumed authorization data or of the
\* refresh or access entry of the previous grant, the response is
\* server_error and its output has no access_token.
C19_RemoveFailure ==
  (pc = "token" /\ done /\ fault \in RemoveFaults) =>
    /\ w.IsError /\ w.ErrorType = "server_error"
    /\ "access_token" \notin DOMAIN w.Output

C21_UnknownClient ==
  /\ (pc = "authorize" /\ ~done /\ form.ParseErr = ""
        /\ QueryUnescape(form.redirect_uri).err = ""
        /\ form.client_id \notin DOMAIN ms.Clients) =>
       (req = Nil /\ w.IsError /\ w.ErrorType = "unauthorized_client")
  /\ (pc = "token" /\ ~done /\ WellFormed(form) /\ Presented(form) # Nil
        /\ Presented(form)[1].Username \notin DOMAIN ms.Clients) =>
       (req = Nil /\ w.IsError /\ w.ErrorType = "unauthorized_client")

\* the grant types a token request can name on the wire
WireGrants ==
  {AuthorizationCodeGrant, RefreshTokenGrant, PasswordGrant, ClientCredentialsGrant,
   AssertionGrant}

\* C22: a POST token request whose form parses is rejected with
\* unsupported_grant_type when its grant_type is not allowed or is not one
\* of the five wire grant types (__implicit, which the configuration
\* allows, included), whatever credentials it carries, with no secret read
\* and no internal error; and a request object is returned only for the
\* request's own grant type, one of the five.
C22_GrantTypes ==
  (pc = "token" /\ ~done /\ form.Method = "POST" /\ form.ParseErr = "") =>
    /\ (form.grant_type \notin AllowedGrantTypes \/ form.grant_type \notin WireGrants) =>
         /\ req = Nil
         /\ w.IsError /\ w.ErrorType = "unsupported_grant_type"
         /\ w.InternalError = ""
         /\ ~getSecretCalled
    /\ req # Nil =>
         /\ req[1].GrantType = form.grant_type
         /\ form.grant_type \in WireGrants \cap AllowedGrantTypes

\* C22 witness: a request with grant_type=__implicit and the credentials of
\* a client that is not registered has been rejected
C22_Witness ==
  /\ pc = "token" /\ ~done /\ form.grant_type = ImplicitGrant
  /\ ImplicitGrant \in AllowedGrantTypes
  /\ Presented(form) # Nil /\ Presented(form)[1].Username \notin DOMAIN ms.Clients
  /\ w.ErrorType = "unsupported_grant_type"

\* C23: the authorization endpoint returns a request only with type code or
\* token; a request that passes the URI validation with any other
\* response_type, one the configuration allows included, is rejected with
\* unsupported_response_type and no request is returned.
C23_ResponseTypes ==
  (pc = "authorize" /\ ~done) =>
    /\ req # Nil => req[1].Type \in {"code", "token"}
    /\ (URIValidated(form) /\ form.response_type \notin {"code", "token"}) =>
         (req = Nil /\ w.IsError /\ w.ErrorType = "unsupported_response_type")

\* the Authorization header h, split at its first space, is of the form
\* Bearer <token>
IsBearer(h) == Len(h) = 2 /\ h[1] = "Bearer"

\* C24: for the request the info endpoint has read, bearer extraction yields
\* the token of a header Bearer <token>, whatever the form field code is;
\* the form field code when there is no header and the field is not empty;
\* and nothing when there is neither; a request object the endpoint returns
\* carries that token.
C24_BearerPrecedence ==
  (pc \in {"info", "panic"} /\ form.ParseErr = "") =>
    LET h == form.Authorization
        b == checkBearerAuth(form)
    IN  /\ IsBearer(h) => b = [auth |-> Some([Code |-> h[2]]), panic |-> FALSE]
        /\ (h = <<>> /\ form.code # "") =>
             b = [auth |-> Some([Code |-> form.code]), panic |-> FALSE]
        /\ (h = <<>> /\ form.code = "") => b = [auth |-> Nil, panic |-> FALSE]
        /\ (req # Nil /\ IsBearer(h)) => req[1].Code = h[2]
        /\ (req # Nil /\ h = <<>>) => req[1].Code = form.code

\* C24 witness: the info endpoint has accepted the token of the header of a
\* request whose form field code holds another, non-empty value
C24_Witness ==
  /\ pc = "info" /\ req # Nil
  /\ IsBearer(form.Authorization)
  /\ form.code # "" /\ form.code # form.Authorization[2]
  /\ req[1].Code = form.Authorization[2]

\* C25: for a request whose Authorization header is present and not of the
\* form Bearer <token>, bearer extraction returns, and yields the form field
\* code when that is not empty and nothing otherwise.
C25_MalformedHeader ==
  (pc \in {"info", "panic"} /\ form.ParseErr = ""
     /\ form.Authorization # <<>> /\ ~IsBearer(form.Authorization)) =>
    /\ pc # "panic"
    /\ checkBearerAuth(form) =
         [auth |-> IF form.code # "" THEN Some([Code |-> form.code]) ELSE Nil,
          panic |-> FALSE]

\* the URI u is not blank, parses, and has no fragment
Plain(u) == u # <<>> /\ ~ParseURL(u).err /\ ParseURL(u).Fragment = <<>>

\* C26 as stated: validateURI succeeds for every parseable base without a
\* fragment and every parseable candidate whose path is the base's path.
C26_EqualPath ==
  (pc = "validateURI"
     /\ ~ParseURL(form.baseURI).err /\ ~ParseURL(form.redirectURI).err
     /\ ParseURL(form.baseURI).Fragment = <<>>
     /\ ParseURL(form.redirectURI).Path = ParseURL(form.baseURI).Path) =>
    w = "ok"

\* C26 amended: validateURI succeeds for every base and candidate that are
\* not blank, parse and have no fragment, and whose scheme, host and path are
\* equal; in particular validateURI(x, x) succeeds for every x that is not
\* blank, parses and has no fragment.
C26_EqualPathSameOrigin ==
  pc = "validateURI" =>
    LET base == ParseURL(form.baseURI)
        redirect == ParseURL(form.redirectURI)
    IN  /\ (Plain(form.baseURI) /\ Plain(form.redirectURI)
             /\ base.Scheme = redirect.Scheme /\ base.Host = redirect.Host
             /\ base.Path = redirect.Path) => w = "ok"
        /\ (Plain(form.baseURI) /\ form.redirectURI = form.baseURI) => w = "ok"

\* C26 witness: a base with a path has been validated against itself
C26_Witness ==
  /\ pc = "validateURI"
  /\ Plain(form.baseURI) /\ form.redirectURI = form.baseURI
  /\ ParseURL(form.baseURI).Path # <<>>
  /\ w = "ok"

\* the path p without its trailing slashes
Stripped(p) ==
  LET k == CHOOSE k \in 0..Len(p) :
             /\ k = 0 \/ p[k] # "/"
             /\ \A j \in (k + 1)..Len(p) : p[j] = "/"
  IN  SubSeq(p, 1, k)

\* a segment of p between slashes (or an end of p) is ..
HasDotDot(p) ==
  \E i \in 1..(Len(p) - 1) :
    /\ p[i] = "." /\ p[i + 1] = "."
    /\ i = 1 \/ p[i - 1] = "/"
    /\ i + 1 = Len(p) \/ p[i + 2] = "/"

\* the path rule: cp is bp, or cp starts with bp stripped of its trailing
\* slashes and a slash, and the rest has no segment ..
PathRule(bp, cp) ==
  \/ cp = bp
  \/ LET pre == Stripped(bp) \o <<"/">>
     IN  /\ Len(cp) >= Len(pre)
         /\ \A i \in 1..Len(pre) : cp[i] = pre[i]
         /\ ~HasDotDot(SubSeq(cp, Len(pre) + 1, Len(cp)))

\* the cases of C27: base path, candidate path, accepted
PathCases ==
  {<<(<<"/", "a">>), (<<"/", "a">>), TRUE>>,
   <<(<<"/", "a">>), (<<"/", "a", "/">>), TRUE>>,
   <<(<<"/", "a">>), (<<"/", "a", "/", "b">>), TRUE>>,
   <<(<<"/", "a">>), (<<"/", "a", "b">>), FALSE>>,
   <<(<<"/", "a">>), (<<"/", "a", ".", ".", "/", "x">>), FALSE>>,
   <<(<<"/", "a">>), (<<"/", "a", "/", ".", ".">>), FALSE>>,
   <<(<<"/", "a">>), (<<"/", "a", "/", ".", ".", "/", "x">>), FALSE>>,
   <<(<<"/", "a", "/">>), (<<"/", "a">>), FALSE>>}

\* C27: for a base and a candidate that are not blank, parse, have no
\* fragment and have the same scheme and host, validateURI succeeds exactly
\* when the paths satisfy the path rule; base /a accepts /a, /a/ and /a/b and
\* rejects /ab, /a../x, /a/.. and /a/../x, and base /a/ rejects /a.
C27_PathRule ==
  (pc = "validateURI" /\ Plain(form.baseURI) /\ Plain(form.redirectURI)
     /\ ParseURL(form.baseURI).Scheme = ParseURL(form.redirectURI).Scheme
     /\ ParseURL(form.baseURI).Host = ParseURL(form.redirectURI).Host) =>
    /\ (w = "ok") = PathRule(ParseURL(form.baseURI).Path, ParseURL(form.redirectURI).Path)
    /\ w \in {"ok", "invalid"}
    /\ \A c \in PathCases :
         (form.baseURI = Origin \o c[1] /\ form.redirectURI = Origin \o c[2]) =>
           (w = "ok") = c[3]

\* C27 witness: base /a/ has accepted a candidate below it and not equal to
\* it
C27_Witness ==
  /\ pc = "validateURI"
  /\ form.baseURI = Origin \o <<"/", "a", "/">>
  /\ Len(form.redirectURI) > Len(form.baseURI)
  /\ w = "ok"

\* the base URIs of the list validateURIList has received
ListOf(f) == IF f.separator # <<>> THEN Split(f.baseURI, f.separator[1]) ELSE <<f.baseURI>>

\* C28 as stated: validateURIList succeeds as soon as an element of the list
\* validates against the candidate, whatever the other elements are.
C28_AnyElement ==
  (pc = "validateURIList"
     /\ \E i \in 1..Len(ListOf(form)) :
          validateURI(ListOf(form)[i], form.redirectURI) = "ok") =>
    w = "ok"

\* C28 amended: validateURIList succeeds exactly when an element of the list
\* validates against the candidate and every element before it fails with a
\* validation error, whatever the position of the element and whatever the
\* elements after it are; when an element that no validating element
\* precedes fails with another error (blank, parse failure, fragment), that
\* error is returned.
C28_AnyElementUnlessError ==
  pc = "validateURIList" =>
    LET l == ListOf(form)
        v(i) == validateURI(l[i], form.redirectURI)
    IN  /\ (w = "ok") = (\E i \in 1..Len(l) : v(i) = "ok" /\ \A j \in 1..(i - 1) : v(j) = "invalid")
        /\ (w = "error") =
             (\E i \in 1..Len(l) : v(i) = "error" /\ \A j \in 1..(i - 1) : v(j) = "invalid")
        /\ w \in {"ok", "invalid", "error"}

\* C28 witness: the last of three base URIs has validated the candidate
C28_Witness ==
  /\ pc = "validateURIList"
  /\ Len(ListOf(form)) = MaxList
  /\ validateURI(ListOf(form)[1], form.redirectURI) = "invalid"
  /\ validateURI(ListOf(form)[2], form.redirectURI) = "invalid"
  /\ validateURI(ListOf(form)[3], form.redirectURI) = "ok"
  /\ w = "ok"

\* the output of an error response for the arguments a of SetError
ErrorOutput(a) ==
  [k \in {"error", "error_description"}
          \cup (IF a.state \notin {<<>>, <<"">>} THEN {"state"} ELSE {}) |->
     IF k = "error" THEN a.e.Type
     ELSE IF k = "error_description" THEN a.e.Desc
     ELSE a.state[1]]

\* after at least one SetError, the response is the error response of the
\* last call
C29_State ==
  calls # <<>> =>
    LET last == calls[Len(calls)]
    IN  /\ w.IsError
        /\ w.ErrorType = last.e.Type
        /\ w.Output = ErrorOutput(last)
        /\ DOMAIN w.Output \cap {"access_token", "token_type", "code"} = {}
        /\ w.StatusText = IF w.HttpStatusCode # StatusOK THEN last.e.Desc ELSE ""

\* a step leaves the mode, the URL, the fragment flag and the configured
\* status of the response as they are
C29_Frame ==
  /\ w'.ResponseType = w.ResponseType
  /\ w'.URL = w.URL
  /\ w'.RedirectInFragment = w.RedirectInFragment
  /\ w'.HttpStatusCode = w.HttpStatusCode

\* C29: after any sequence of SetError calls on a response, isError is true,
\* errorType is the last error's type, the output holds exactly error and
\* error_description of the last error, and state if and only if the last
\* call passed a non-empty state; the keys written before are gone;
\* statusText is the description when the status of the response is not 200
\* and empty otherwise; the mode and the URL of the response are unchanged.
C29_SetErrorSequence == []C29_State /\ [][C29_Frame]_vars

\* C29 witness: on a redirect response with a code and a state in its output,
\* an error with a state and then another error without state have been set
C29_Witness ==
  /\ Len(calls) = 2
  /\ calls[1].state = <<"xyz">> /\ calls[2].state = <<>>
  /\ calls[1].e # calls[2].e
  /\ w.ResponseType = "REDIRECT" /\ w.URL = U_A
  /\ w.HttpStatusCode = StatusInternalServerError
  /\ DOMAIN w.Output = {"error", "error_description"}

\* the access tokens of the grants a finished refresh has removed: those the
\* spent refresh tokens of the initial store stood for
RefreshedAccessTokens ==
  {TestStorage.RefreshGrants[t] : t \in SpentRefreshTokens \cap DOMAIN TestStorage.RefreshGrants}

\* the output of the info endpoint for the grant g at time t
InfoOutput(g, t) ==
  [k \in {"client_id", "access_token", "token_type", "expires_in"}
          \cup (IF g.RefreshToken # "" THEN {"refresh_token"} ELSE {})
          \cup (IF g.Scope # <<>> THEN {"scope"} ELSE {}) |->
     CASE k = "client_id" -> g.Client[1].ID
       [] k = "access_token" -> g.AccessToken
       [] k = "token_type" -> TokenType
       [] k = "expires_in" -> (g.CreatedAt + g.ExpiresIn) - t
       [] k = "refresh_token" -> g.RefreshToken
       [] k = "scope" -> g.Scope]

\* the info endpoint has returned a request only for a token of the request
\* that is a key of the access-grant store, whose grant has a client with a
\* registered redirect URI, is not expired now and was not removed by a
\* refresh; the finished response holds the output of that grant
C30_State ==
  /\ (pc = "info" /\ req # Nil) =>
       LET c == req[1].Code
       IN  /\ ~w.IsError
           /\ c # ""
           /\ c = form.code \/ (Len(form.Authorization) = 2 /\ c = form.Authorization[2])
           /\ c \in DOMAIN ms.AccessGrants
           /\ req[1].AccessGrant = Some(ms.AccessGrants[c])
           /\ ms.AccessGrants[c].AccessToken = c
           /\ ms.AccessGrants[c].Client # Nil
           /\ ms.AccessGrants[c].Client[1].RedirectURI # <<>>
           /\ ms.AccessGrants[c].CreatedAt + ms.AccessGrants[c].ExpiresIn >= now
           /\ c \notin RefreshedAccessTokens
           /\ done => w.Output = InfoOutput(ms.AccessGrants[c], now)
  /\ (pc = "info" /\ req = Nil) => (w.IsError /\ "access_token" \notin DOMAIN w.Output)

\* a step of the info endpoint leaves the storage and the generators as they
\* are
C30_Frame == pc' \in {"info", "panic"} => (ms' = ms /\ gen' = gen)

\* C30: the info endpoint succeeds only for a bearer token that is a key of
\* the access-grant store, whose grant has a client with a non-empty
\* registered redirect URI and is not expired at Now(); its output holds
\* client_id, access_token, token_type and expires_in = (createdAt +
\* expiresIn) - Now(), and refresh_token and scope only when not empty;
\* Handle and Finish of the info endpoint never modify storage; a token
\* whose grant a refresh has removed no longer succeeds.
C30_Info == []C30_State /\ [][C30_Frame]_vars

\* C30 witness: one second after its creation the info endpoint has answered
\* for the stored grant 9999, which has a refresh token and a scope, with
\* expires_in 0
C30_Witness ==
  /\ pc = "info" /\ done /\ req # Nil /\ ~w.IsError
  /\ req[1].Code = "9999" /\ now = 1
  /\ w.Output["expires_in"] = 0
  /\ w.Output["refresh_token"] = "r9999"
  /\ w.Output["scope"] = ScopeAB

\* a step in which FinishAccessRequest ends without error on an accepted
\* request, with the forced grant f in the place of a generated one
ForcedFinish(f) ==
  /\ pc = "token" /\ ~done /\ done' /\ req # Nil /\ ~w.IsError /\ ~w'.IsError
  /\ calls' # <<>> /\ calls'[1] = "SaveAccessGrant"
  /\ w'.Output["access_token"] = f.AccessToken

\* what C32 requires of a finish with the forced grant f
C32_Step(f) ==
  /\ gen' = gen
  /\ \A i \in 1..Len(calls') : calls'[i] # "GenerateAccessToken"
  /\ IF f.RefreshToken # "" THEN w'.Output["refresh_token"] = f.RefreshToken
                            ELSE "refresh_token" \notin DOMAIN w'.Output
  /\ req[1].AuthorizeData # Nil =>
       req[1].AuthorizeData[1].Code \notin DOMAIN ms'.AuthorizeData
  /\ (req[1].AccessGrant # Nil /\ req[1].AccessGrant[1].AccessToken # f.AccessToken) =>
       /\ req[1].AccessGrant[1].AccessToken \notin DOMAIN ms'.AccessGrants
       /\ req[1].Code \notin DOMAIN ms'.RefreshGrants

\* C32: when the host sets ForceAccessGrant on an authorized token request,
\* Finish generates no token, saves the forced grant and emits its tokens,
\* and removes what the request consumed: afterwards the authorization data
\* Handle loaded for an authorization_code request is not in storage, nor is
\* the previous grant of a refresh request.
C32_ForcedGrant ==
  [][\A t \in DOMAIN ms.AccessGrants :
       ForcedFinish(ms.AccessGrants[t]) => C32_Step(ms.AccessGrants[t])]_vars

\* C40: whenever Finish of the token endpoint, or of the implicit flow, has
\* ended without error for an authorized request, the access_token of the
\* output is a key of the access-grant store.
C40_EmittedTokenStored ==
  (pc \in {"token", "authorize"} /\ done /\ ~w.IsError /\ req # Nil
     /\ "access_token" \in DOMAIN w.Output) =>
    w.Output["access_token"] \in DOMAIN ms.AccessGrants

\* the token request r lacks a field its grant type requires
LacksGrantField(r) ==
  \/ r.grant_type = AuthorizationCodeGrant /\ r.code = ""
  \/ r.grant_type = RefreshTokenGrant /\ r.refresh_token = ""
  \/ r.grant_type = PasswordGrant /\ (r.username = "" \/ r.password = "")
  \/ r.grant_type = AssertionGrant /\ (r.assertion_type = "" \/ r.assertion = "")

\* the token request r carries client credentials
CarriesCredentials(r) == getClientAuth(NewResponse, r, AllowClientSecretInParams).auth # Nil

\* C35: a token request that carries client credentials which fail the
\* authentication and that lacks a field its grant type requires is rejected
\* with unauthorized_client, the error of the client authentication, not with
\* invalid_grant.
C35_AuthenticatedFirst ==
  (pc = "token" /\ ~done /\ form.Method = "POST" /\ form.ParseErr = ""
     /\ CarriesCredentials(form) /\ ~Authenticates(form, ms)
     /\ LacksGrantField(form)) =>
    (req = Nil /\ w.IsError /\ w.ErrorType = "unauthorized_client")

\* C36: whenever a response of the authorization endpoint is in redirect
\* mode, with or without error, for the code and the implicit flow, its URL
\* has passed validateURIList against the redirect URIs registered for the
\* client the request names, is not empty and has no fragment.
C36_RedirectValidated ==
  (pc = "authorize" /\ w.ResponseType = "REDIRECT") =>
    /\ form.client_id \in DOMAIN ms.Clients
    /\ validateURIList(ms.Clients[form.client_id].RedirectURI, w.URL,
                       RedirectURISeparator) = "ok"
    /\ w.URL # <<>>
    /\ "#" \notin Symbols(w.URL)
    /\ w.URL = AuthorizeURI(form)

\* C36 witness: Finish of the authorization endpoint has redirected, without
\* error, to a URI below the registered one
C36_Witness ==
  /\ pc = "authorize" /\ done /\ ~w.IsError
  /\ w.ResponseType = "REDIRECT"
  /\ w.URL = U_AB /\ ms.Clients[form.client_id].RedirectURI = U_A

\* C37: the grant the token endpoint has issued for an authorization code has
\* the scope and the user data stored with the code, whatever scope the token
\* request sent, and every grant it has issued by refreshing that grant, or a
\* grant that descends from it, has the redirect URI and the user data of the
\* refreshed grant.
C37_GrantData ==
  (pc = "token" /\ done /\ ~w.IsError /\ req # Nil) =>
    /\ w.Output["access_token"] \in DOMAIN ms.AccessGrants
    /\ LET g == ms.AccessGrants[w.Output["access_token"]]
       IN  /\ req[1].GrantType = AuthorizationCodeGrant =>
                /\ g.Scope = UserDataStorage.AuthorizeData[form.code].Scope
                /\ g.UserData = UserDataStorage.AuthorizeData[form.code].UserData
                /\ g.AuthorizeData = Some(UserDataStorage.AuthorizeData[form.code])
           /\ req[1].GrantType = RefreshTokenGrant =>
                /\ g.AccessGrant # Nil
                /\ g.AccessGrant[1].RefreshToken = form.refresh_token
                /\ g.RedirectURI = g.AccessGrant[1].RedirectURI
                /\ g.UserData = g.AccessGrant[1].UserData

\* C37 witness: the grant issued by the second refresh after the exchange of
\* the code has the redirect URI of the code and its user data, the refresh
\* request having sent another redirect URI
C37_Witness ==
  /\ pc = "token" /\ done /\ ~w.IsError /\ req # Nil
  /\ form.grant_type = RefreshTokenGrant /\ form.redirect_uri = U_B
  /\ LET g == ms.AccessGrants[w.Output["access_token"]]
     IN  /\ Len(Ancestry(g)) = 3
         /\ g.RedirectURI = U_A /\ g.UserData = "ud"

\* a step in which a Handle operation of an endpoint serves a request
HandleStep == pc = "idle" /\ pc' \in {"token", "authorize", "info", "panic"}

C39_NilIffError ==
  /\ (pc \in {"token", "authorize", "info", "panic"} /\ ~done) =>
       (req = Nil <=> w.IsError)
  /\ (pc \in {"token", "authorize", "info"} /\ done /\ req # Nil) =>
       (w.IsError \/ DOMAIN w.Output # {})

\* every stored grant with a refresh token is the grant LoadRefreshGrant
\* returns for that token
C31_Retrievable ==
  \A t \in DOMAIN ms.AccessGrants :
    ms.AccessGrants[t].RefreshToken # "" =>
      LoadRefreshGrant(ms, ms.AccessGrants[t].RefreshToken) =
        [val |-> Some(ms.AccessGrants[t]), err |-> ""]

\* a step that adds a grant with a refresh token to the store adds its
\* refresh-index entry in the same step
C31_Atomic ==
  \A t \in DOMAIN ms'.AccessGrants :
    (ms'.AccessGrants[t].RefreshToken # ""
       /\ (t \notin DOMAIN ms.AccessGrants \/ ms.AccessGrants[t] # ms'.AccessGrants[t])) =>
      /\ ms'.AccessGrants[t].RefreshToken \in DOMAIN ms'.RefreshGrants
      /\ ms'.RefreshGrants[ms'.AccessGrants[t].RefreshToken] = t

\* C31: in every state of the store that the concurrent token requests
\* reach, the states between two store operations of one Finish included,
\* every stored grant with a refresh token is retrievable by that token, and
\* SaveAccessGrant publishes the grant and its refresh-index entry in one
\* step.
C31_RefreshIndex == []C31_Retrievable /\ [][C31_Atomic]_vars

\* C33: an authorization code yields at most one issued grant, however the
\* Handle and Finish steps of the concurrent requests that present it are
\* interleaved.
C33_CodeOnce ==
  \A x \in spent : \A y \in spent :
    (x.grant = AuthorizationCodeGrant /\ y.grant = AuthorizationCodeGrant
       /\ x.token = y.token) => x.issued = y.issued

\* C34: under any interleaving of the concurrent callers of the store every
\* method that is called returns, LoadRefreshGrant with its second read
\* lock included, also while another caller waits for the write lock.
C34_Returns == \A p \in Procs : (pc[p].at # "idle") ~> (pc[p].at = "idle")

====
